---- MODULE Spec2Model ----
(***************************************************************************)
(* A model of the StepWright step-execution engine: the step interpreter   *)
(* (executeStep / executeStepList, src/src/step-executor.ts), its helpers  *)
(* (utils: cloneStepWithIndex, flattenNestedForeachResults) and the tab    *)
(* runner with its pagination loop (executeTab, src/src/tab-executor.ts).  *)
(*                                                                         *)
(* Strings are sequences of tokens; a token is a literal chunk ("title",   *)
(* "item_", "0") or a placeholder ("{{i}}", "{{i_plus1}}").  An absent     *)
(* (undefined) string and the empty string are both <<>>: the code only    *)
(* tests them for truthiness.                                              *)
(*                                                                         *)
(* A collector is a JavaScript object: an insertion-ordered list of        *)
(* key/value entries.  A value is null, a string, an object or an array.   *)
(*                                                                         *)
(* The browser driver is the environment: every probe of the page (count,  *)
(* extraction, click, navigation) is a nondeterministic choice, so the     *)
(* interpreter is a relation, written as the set of its possible outcomes. *)
(***************************************************************************)
EXTENDS Integers, Sequences, FiniteSets, TLC

VARIABLES
    tmpl,             \* executeTab: the TabTemplate and whether onResult was given
    pc,               \* executeTab: position in the function
    pageIndex,        \* executeTab: let pageIndex
    resultIndex,      \* executeTab: let resultIndex
    results,          \* executeTab: const results
    onResultCallback, \* (global as any).onResultCallback is set
    delivered,        \* calls received by the caller's onResult, in call order
    origin,           \* history: where each of those calls was made from
    pageNo,           \* driver: how many advances the page has gone through
    inits,            \* history: executions of the initSteps list
    collects,         \* history: executions of the per-page step list
    advances,         \* history: calls of runPagination
    lastAdv,          \* history: the last runPagination: "none", "ok", "fail", "threw"
    afterFail,        \* history: a collect or advance happened after a failed advance
    collected,        \* executeTab: the root collector of the last page iteration
    sx,               \* step interpreter run: its input
    out,              \* step interpreter run: its outcome
    phase,            \* step interpreter run: "ready" or "ran"
    pdfPc,            \* savePDF: position of the case's main flow
    pdfSaved,         \* savePDF: let pdfSaved
    savedPath,        \* savePDF: let savedPath
    interceptedData,  \* savePDF: interceptedData.buffer holds a buffer
    routed,           \* driver: the handler of page.route('**/*') is registered
    handlers,         \* driver: the route handler's invocations, each at its await
    pdfLog            \* history: the writes of the target file and the caught errors

tabVars == <<tmpl, pc, pageIndex, resultIndex, results, onResultCallback,
             delivered, origin, pageNo, inits, collects, advances, lastAdv, afterFail,
             collected>>
pdfVars == <<pdfPc, pdfSaved, savedPath, interceptedData, routed, handlers, pdfLog>>
stepVars == <<sx, out, phase, pdfVars>>
vars == <<tmpl, pc, pageIndex, resultIndex, results, onResultCallback,
          delivered, origin, pageNo, inits, collects, advances, lastAdv, afterFail,
          collected, sx, out, phase, pdfVars>>

----------------------------------------------------------------------------
(* Bounds *)

\* largest index a step is cloned with
MaxIndex == 2
\* most elements a top-level foreach selector matches in a step-interpreter run
MaxMatch == 2
\* most elements a nested foreach selector matches
MaxInnerMatch == 1
\* most elements a foreach selector matches on a page of a tab run
MaxTabMatch == 2
\* largest maxPages a template of a tab run is given
MaxPagesBound == 2
\* history counters and the page number of an uncapped tab run stop here
CountCap == 3
\* an uncapped tab run meets empty pages once it holds this many records
MaxResults == 2
\* most PDF requests the page makes while the route of a savePDF step is registered
MaxRequests == 2

----------------------------------------------------------------------------
(* Values and collectors *)

Null == [t |-> "null", s |-> <<>>, c |-> <<>>]
StrVal(s) == [t |-> "str", s |-> s, c |-> <<>>]
ObjVal(c) == [t |-> "obj", s |-> <<>>, c |-> c]
ArrVal(c) == [t |-> "arr", s |-> <<>>, c |-> c]

Min(a, b) == IF a < b THEN a ELSE b

\* Object.keys(col), in insertion order
Keys(col) == [i \in 1..Len(col) |-> col[i].k]

Has(col, k) == \E i \in 1..Len(col) : col[i].k = k

\* col[k]
Get(col, k) == col[CHOOSE i \in 1..Len(col) : col[i].k = k].v

\* Put that leaves an existing key as it is
Put_KeepsFirst(col, k, v) ==
    IF Has(col, k) THEN col ELSE Append(col, [k |-> k, v |-> v])

\* col[k] = v: an existing key keeps its place, a new key goes last
Put(col, k, v) ==
    IF Has(col, k)
    THEN [i \in 1..Len(col) |-> IF col[i].k = k THEN [k |-> k, v |-> v] ELSE col[i]]
    ELSE Append(col, [k |-> k, v |-> v])

\* k.startsWith('item_')
StartsWithItem(k) == Len(k) > 0 /\ k[1] = "item_"

IsItemEntry(e) == StartsWithItem(e.k)
IsContextEntry(e) == ~StartsWithItem(e.k)

\* ItemKey numbering the items from 1
ItemKey_FromOne(idx) == <<"item_", ToString(idx + 1)>>

\* `item_${idx}`
ItemKey(idx) == <<"item_", ToString(idx)>>

\* Object.assign(a, b) / { ...a, ...b }
RECURSIVE Assign(_, _)
Assign(a, b) ==
    IF b = <<>> THEN a ELSE Assign(Put(a, b[1].k, b[1].v), Tail(b))

\* the text the driver reads from the element that `object` selects within the
\* foreach element at `scope`, on page `pg`: distinct elements, distinct texts
TextOf(pg, scope, object) ==
    object \o <<"@", ToString(pg)>> \o [i \in 1..Len(scope) |-> ToString(scope[i])]

----------------------------------------------------------------------------
(* utils: placeholders, cloning, flattening *)

\* the one-character names the placeholders of the steps below are written with
OneCharNames == {"i", "j", "."}

\* the texts that /\{\{\s*name\s*\}\}/ matches when name is taken literally
Braced(name) == {"{{" \o name \o "}}", "{{ " \o name \o " }}"}

\* the tokens that new RegExp(`\\{\\{\\s*${char}${suffix}\\s*\\}\\}`) matches: char
\* goes into the pattern as it is, so "." stands for any one character
MatchedBy(char, suffix) ==
    IF char = "."
    THEN UNION {Braced(name \o suffix) : name \in OneCharNames}
    ELSE Braced(char \o suffix)

\* text.replace(regex, i.toString()).replace(plus1Regex, (i + 1).toString())
replaceIndexPlaceholders(text, i, char) ==
    IF text = <<>> THEN text
    ELSE [n \in 1..Len(text) |->
            IF text[n] \in MatchedBy(char, "") THEN ToString(i)
            ELSE IF text[n] \in MatchedBy(char, "_plus1") THEN ToString(i + 1)
            ELSE text[n]]

\* cloneStepWithIndex leaving the subSteps to the loop that will run them
cloneStepWithIndex_OwnFieldsOnly(step, idx, char) ==
    [step EXCEPT
        !.object = replaceIndexPlaceholders(step.object, idx, char),
        !.value = replaceIndexPlaceholders(step.value, idx, char),
        !.key = replaceIndexPlaceholders(step.key, idx, char)]

RECURSIVE cloneStepWithIndex(_, _, _)
cloneStepWithIndex(step, idx, char) ==
    [step EXCEPT
        !.object = replaceIndexPlaceholders(step.object, idx, char),
        !.value = replaceIndexPlaceholders(step.value, idx, char),
        !.key = replaceIndexPlaceholders(step.key, idx, char),
        !.subSteps = [n \in 1..Len(step.subSteps) |->
                         cloneStepWithIndex(step.subSteps[n], idx, char)]]

\* parseInt(k.split('_')[1]) of an item key
ItemIndex(k) == CHOOSE n \in 0..9 : ToString(n) = k[2]

\* Array.prototype.sort on the item keys, by their index (stable)
RECURSIVE InsertKey(_, _)
InsertKey(sorted, k) ==
    IF sorted = <<>> THEN <<k>>
    ELSE IF ItemIndex(k) < ItemIndex(sorted[1]) THEN <<k>> \o sorted
    ELSE <<sorted[1]>> \o InsertKey(Tail(sorted), k)

RECURSIVE SortItemKeys(_)
SortItemKeys(ks) ==
    IF ks = <<>> THEN <<>>
    ELSE InsertKey(SortItemKeys(SubSeq(ks, 1, Len(ks) - 1)), ks[Len(ks)])

\* v && Object.keys(v).length > 0
NonEmpty(v) ==
    \/ v.t \in {"obj", "arr"} /\ v.c # <<>>
    \/ v.t = "str" /\ v.s # <<>>

\* an array as an object: its elements under the keys "0", "1", ...
ArrayOf(vals) ==
    [n \in 1..Len(vals) |-> [k |-> <<ToString(n - 1)>>, v |-> vals[n]]]

\* the loop of flattenNestedForeachResults over the sorted item keys
RECURSIVE FlattenItems(_, _, _)
FlattenItems(item, context, ks) ==
    IF ks = <<>> THEN <<>>
    ELSE LET v == Get(item, ks[1])
         IN  (IF NonEmpty(v) THEN <<ObjVal(Assign(context, v.c))>> ELSE <<>>)
             \o FlattenItems(item, context, Tail(ks))

flattenNestedForeachResults(item) ==
    LET context == SelectSeq(item, IsContextEntry)
        nestedItemKeys == Keys(SelectSeq(item, IsItemEntry))
    IN  IF Len(nestedItemKeys) > 0
        THEN ArrVal(ArrayOf(FlattenItems(item, context, SortItemKeys(nestedItemKeys))))
        ELSE ObjVal(item)

----------------------------------------------------------------------------
(* Steps *)

\* a BaseStep with every optional field absent
BaseStep(id, action) ==
    [id |-> id, action |-> action, object_type |-> "", object |-> <<>>,
     value |-> <<>>, key |-> <<>>, wait |-> 0, terminateonerror |-> FALSE,
     subSteps |-> <<>>, index_key |-> "", autoScroll |-> TRUE]

SelectorTypes == {"id", "class", "tag", "xpath"}

\* step.key || step.id || fallback
CollectorKey(step, fallback) ==
    IF step.key # <<>> THEN step.key
    ELSE IF step.id # <<>> THEN step.id
    ELSE <<fallback>>

\* what the interpreter observes and does, in order
Event(e, step, scope, n, rec) ==
    [e |-> e, id |-> step.id, scope |-> scope, n |-> n, rec |-> rec]

\* the events of the call under observation are recorded; below it (the
\* sub-steps of a foreach) only the calls of the sub-steps, the emissions to
\* the callback and the caught sub-step errors are
Logged(log, ev) == IF log THEN <<ev>> ELSE <<>>

\* an outcome of running a step or a step list: the collector as it was left,
\* whether an error left the call, and the events; `ret` marks an early return
Outcome(col, thrown, ret, obs) ==
    [col |-> col, thrown |-> thrown, ret |-> ret, obs |-> obs]

----------------------------------------------------------------------------
(* Step interpreter: executeStep and executeStepList (step-executor.ts)     *)
(* Parameters: the step, the collector, the foreach scope (the indices of  *)
(* the enclosing foreach elements; <<>> is the page), the page number, how *)
(* many elements a foreach may match, and whether the global callback is   *)
(* registered.  `log` says whether the call's events are recorded.         *)

\* navigate(page, url): 'Url is required', else page.goto, which may reject
navigate(step, col, scope, log) ==
    IF step.value = <<>>
    THEN {Outcome(col, TRUE, FALSE, Logged(log, Event("config", step, scope, 0, Null)))}
    ELSE {Outcome(col, FALSE, FALSE, Logged(log, Event("goto", step, scope, 0, Null))),
          Outcome(col, TRUE, FALSE, Logged(log, Event("gotoFailed", step, scope, 0, Null)))}

\* input(page, type, selector, value): elem() rejects a missing selector or an
\* unknown selector type, element.type may reject
input(step, col, scope, log) ==
    IF step.object = <<>> \/ step.object_type \notin SelectorTypes
    THEN {Outcome(col, TRUE, FALSE, Logged(log, Event("config", step, scope, 0, Null)))}
    ELSE {Outcome(col, FALSE, FALSE, Logged(log, Event("typed", step, scope, 0, Null))),
          Outcome(col, TRUE, FALSE, Logged(log, Event("typeFailed", step, scope, 0, Null)))}

\* case 'click': zero matches return at once; a failing click is swallowed
ClickStep(step, col, scope, log) ==
    {Outcome(col, FALSE, TRUE, Logged(log, Event("zero", step, scope, 0, Null))),
     Outcome(col, FALSE, FALSE, Logged(log, Event("clicked", step, scope, 0, Null))),
     Outcome(col, FALSE, FALSE, Logged(log, Event("clickFailed", step, scope, 0, Null)))}

\* DataStep storing '' for zero matches, as executeStepInContext does
DataStep_EmptyString(step, col, scope, pg, log) ==
    LET key == IF step.key # <<>> THEN step.key
               ELSE IF step.id # <<>> THEN step.id ELSE <<"data">>
    IN  {Outcome(Put(col, key, StrVal(<<>>)), FALSE, TRUE,
                 Logged(log, Event("zero", step, scope, 0, Null))),
         Outcome(Put(col, key, Null), FALSE, FALSE,
                 Logged(log, Event("extractFailed", step, scope, 0, Null))),
         Outcome(Put(col, key, StrVal(TextOf(pg, scope, step.object))), FALSE, FALSE,
                 Logged(log, Event("extracted", step, scope, 0, Null)))}

\* case 'data': zero matches store null and return at once; a failing
\* extraction stores null; otherwise the element's text is stored
DataStep(step, col, scope, pg, log) ==
    LET key == CollectorKey(step, "data")
    IN  {Outcome(Put(col, key, Null), FALSE, TRUE,
                 Logged(log, Event("zero", step, scope, 0, Null))),
         Outcome(Put(col, key, Null), FALSE, FALSE,
                 Logged(log, Event("extractFailed", step, scope, 0, Null))),
         Outcome(Put(col, key, StrVal(TextOf(pg, scope, step.object))), FALSE, FALSE,
                 Logged(log, Event("extracted", step, scope, 0, Null)))}

\* the characters the file-name cleaning removes: /[^a-zA-Z0-9\s\-_]/g
SpecialTokens == {"@", ".", "/", ":"}

\* String(value).trim().replace(/[^a-zA-Z0-9\s\-_]/g, '').replace(/\s+/g, '_')
CleanForFileName(v) ==
    IF v.t = "str" THEN SelectSeq(v.s, LAMBDA t : t \notin SpecialTokens)
    ELSE IF v.t = "obj" THEN <<"object_Object">>
    ELSE [n \in 1..Len(v.c) |-> "object_Object"]

\* the collector key a {{key}} token names, if it names one that holds a value
PlaceholderKeys(token, collector) ==
    { n \in 1..Len(collector) :
        /\ Len(collector[n].k) = 1
        /\ token = "{{" \o collector[n].k[1] \o "}}"
        /\ collector[n].v.t # "null" }

\* utils.replaceDataPlaceholders: {{key}} becomes the cleaned collector[key]; a
\* token whose key is missing or null stays as it is
RECURSIVE replaceDataPlaceholders(_, _)
replaceDataPlaceholders(text, collector) ==
    IF text = <<>> THEN text
    ELSE LET found == PlaceholderKeys(text[1], collector)
         IN  (IF found # {}
              THEN CleanForFileName(collector[CHOOSE n \in found : TRUE].v)
              ELSE <<text[1]>>)
             \o replaceDataPlaceholders(Tail(text), collector)

\* the actions that capture a file
FileActions == {"eventBaseDownload", "downloadFile", "downloadPDF", "savePDF", "printToPDF"}

\* the path a captured file is written to: eventBaseDownload saves to
\* step.value, the others to replaceDataPlaceholders(step.value, collector) || step.value
ResolvedPath(step, collector) ==
    IF step.action = "eventBaseDownload" THEN step.value
    ELSE LET resolved == replaceDataPlaceholders(step.value, collector)
         IN  IF resolved # <<>> THEN resolved ELSE step.value

\* what the checks at the head of a file-capture case reject: downloadFile and
\* downloadPDF need the object locator, every one needs the value
FileStepRejected(step) ==
    \/ step.action \in {"downloadFile", "downloadPDF"} /\ step.object = <<>>
    \/ step.value = <<>>

\* FileCapture recording null under the key before it checks the step
FileCapture_NullFirst(step, col, scope, log) ==
    LET collectorKey == CollectorKey(step, "file")
    IN  IF FileStepRejected(step)
        THEN {Outcome(Put(col, collectorKey, Null), TRUE, FALSE,
                      Logged(log, Event("config", step, scope, 0, Null)))}
        ELSE {Outcome(Put(col, collectorKey, StrVal(ResolvedPath(step, col))), FALSE, FALSE,
                      Logged(log, Event("saved", step, scope, 0, Null))),
              Outcome(Put(col, collectorKey, Null), FALSE, FALSE,
                      Logged(log, Event("saveFailed", step, scope, 0, Null)))}

\* FileCapture letting the failure of its strategies leave the step
FileCapture_Rethrows(step, col, scope, log) ==
    LET collectorKey == CollectorKey(step, "file")
    IN  IF FileStepRejected(step)
        THEN {Outcome(col, TRUE, FALSE, Logged(log, Event("config", step, scope, 0, Null)))}
        ELSE {Outcome(Put(col, collectorKey, StrVal(ResolvedPath(step, col))), FALSE, FALSE,
                      Logged(log, Event("saved", step, scope, 0, Null))),
              Outcome(col, TRUE, FALSE,
                      Logged(log, Event("saveFailed", step, scope, 0, Null)))}

\* what a capture went through, and whether it wrote the file
Tried(events, saved) == [events |-> events, saved |-> saved]

\* case 'downloadFile'/'downloadPDF' inside its try: the link is counted; its
\* href is read; without a usable href (none, or javascript:) the link is
\* clicked to open a tab whose URL becomes the href; the href is fetched with
\* the page's cookies and the body written.  A link that is not there, an href
\* that stays unresolved, a response that is not ok and every error end the
\* case with nothing saved.
DownloadTries ==
    {Tried(<<"linkFailed">>, FALSE),
     Tried(<<"linkMissing">>, FALSE),
     Tried(<<"href", "fetched">>, TRUE),
     Tried(<<"href", "fetchFailed">>, FALSE),
     Tried(<<"noHref", "clickFailed">>, FALSE),
     Tried(<<"noHref", "tabOpened", "fetched">>, TRUE),
     Tried(<<"noHref", "tabOpened", "fetchFailed">>, FALSE),
     Tried(<<"noHref", "tabMissing", "unresolved">>, FALSE),
     Tried(<<"noHref", "tabMissing", "fetchFailed">>, FALSE)}

\* the ways through the try of a file capture
CaptureTries(step) ==
    IF step.action \in {"downloadFile", "downloadPDF"} THEN DownloadTries
    ELSE {Tried(<<>>, TRUE), Tried(<<>>, FALSE)}

\* the events of a way through a capture, then whether the file was written
CaptureEvents(tried, step, scope, log) ==
    IF log
    THEN [n \in 1..Len(tried.events) |-> Event(tried.events[n], step, scope, 0, Null)]
         \o <<Event(IF tried.saved THEN "saved" ELSE "saveFailed", step, scope, 0, Null)>>
    ELSE <<>>

\* cases 'eventBaseDownload', 'downloadFile'/'downloadPDF', 'savePDF',
\* 'printToPDF': the checks, then the strategies inside try/catch/finally; the
\* finally stores savedPath, the path once a strategy wrote the file and null
\* when none did (whether a strategy gave up or the driver threw)
FileCapture(step, col, scope, log) ==
    LET collectorKey == CollectorKey(step, "file")
    IN  IF FileStepRejected(step)
        THEN {Outcome(col, TRUE, FALSE, Logged(log, Event("config", step, scope, 0, Null)))}
        ELSE {Outcome(Put(col, collectorKey,
                          IF tried.saved THEN StrVal(ResolvedPath(step, col)) ELSE Null),
                      FALSE, FALSE, CaptureEvents(tried, step, scope, log))
              : tried \in CaptureTries(step)}

\* the post-wait at the end of executeStep: skipped by a throw or an early return
PostWait(step, scope, log, o) ==
    IF o.thrown
    THEN [o EXCEPT !.obs = o.obs \o Logged(log, Event("threw", step, scope, 0, Null))]
    ELSE IF o.ret THEN [o EXCEPT !.ret = FALSE]
    ELSE IF step.wait > 0
         THEN [o EXCEPT !.obs = o.obs \o Logged(log, Event("wait", step, scope, step.wait, Null))]
         ELSE o

\* how many elements the foreach selector may match, by nesting depth
MatchCounts(scope, top) == 0..(IF scope = <<>> THEN top ELSE MaxInnerMatch)

\* the streaming emission at the end of a foreach iteration; a failing callback is caught
EmitItem(step, scope, idx, itemCollector, cb) ==
    IF Len(itemCollector) > 0 /\ cb
    THEN <<Event("emit", step, scope, idx, flattenNestedForeachResults(itemCollector))>>
    ELSE <<>>

\* SeedItemCollector starting every item empty
SeedItemCollector_Empty(collector) == <<>>

\* SeedItemCollector with one item collector for all iterations: an iteration
\* goes on in what the iteration before it left
SeedItemCollector_Shared(collector) ==
    LET items == SelectSeq(collector, IsItemEntry)
    IN  IF items = <<>> \/ items[Len(items)].v.t # "obj"
        THEN SelectSeq(collector, IsContextEntry)
        ELSE items[Len(items)].v.c

\* the item collector of an iteration starts with the parent's non-item keys
SeedItemCollector(collector) == SelectSeq(collector, IsContextEntry)

RECURSIVE executeStep(_, _, _, _, _, _, _)
RECURSIVE ForeachSubSteps(_, _, _, _, _, _, _, _, _)
RECURSIVE ForeachLoop(_, _, _, _, _, _, _, _, _, _)
RECURSIVE OpenSubSteps(_, _, _, _, _, _, _, _)

\* sub-step n of iteration idx is called
SubStepBegan(cloned, scope, idx, n) == <<Event("sub", cloned, scope \o <<idx>>, n, Null)>>

\* the catch around a sub-step: "sub-step '...' failed", for sub-step n of iteration idx
SubStepFailed(o, cloned, scope, idx, n) ==
    IF o.thrown THEN <<Event("subThrew", cloned, scope \o <<idx>>, n, Null)>> ELSE <<>>

\* ForeachSubSteps rethrowing whatever a sub-step throws
ForeachSubSteps_Rethrows(step, n, itemCollector, scope, idx, pg, top, cb, obs) ==
    IF n > Len(step.subSteps) THEN {Outcome(itemCollector, FALSE, FALSE, obs)}
    ELSE LET indexKey == IF step.index_key # "" THEN step.index_key ELSE "i"
             cloned == cloneStepWithIndex(step.subSteps[n], idx, indexKey)
             began == obs \o SubStepBegan(cloned, scope, idx, n)
         IN  UNION { IF o.thrown
                     THEN {Outcome(o.col, TRUE, FALSE,
                                   began \o o.obs \o SubStepFailed(o, cloned, scope, idx, n))}
                     ELSE ForeachSubSteps(step, n + 1, o.col, scope, idx, pg, top, cb,
                                          began \o o.obs)
                     : o \in executeStep(cloned, itemCollector, scope \o <<idx>>, pg, top, cb, FALSE) }

\* for (const s of step.subSteps): clone with the index, execute in the item
\* collector scoped to the current element; a throw leaves the loop only when
\* the cloned sub-step has terminateonerror
ForeachSubSteps(step, n, itemCollector, scope, idx, pg, top, cb, obs) ==
    IF n > Len(step.subSteps) THEN {Outcome(itemCollector, FALSE, FALSE, obs)}
    ELSE LET indexKey == IF step.index_key # "" THEN step.index_key ELSE "i"
             cloned == cloneStepWithIndex(step.subSteps[n], idx, indexKey)
             began == obs \o SubStepBegan(cloned, scope, idx, n)
         IN  UNION { IF o.thrown /\ cloned.terminateonerror
                     THEN {Outcome(o.col, TRUE, FALSE,
                                   began \o o.obs \o SubStepFailed(o, cloned, scope, idx, n))}
                     ELSE ForeachSubSteps(step, n + 1, o.col, scope, idx, pg, top, cb,
                                          began \o o.obs \o SubStepFailed(o, cloned, scope, idx, n))
                     : o \in executeStep(cloned, itemCollector, scope \o <<idx>>, pg, top, cb, FALSE) }

\* current.scrollIntoViewIfNeeded(), unless autoScroll is false: it may reject
ScrollIntoView(step, collector, scope, idx, log, obs) ==
    IF step.autoScroll
    THEN {Outcome(collector, TRUE, FALSE,
                  obs \o Logged(log, Event("scrollFailed", step, scope, idx, Null)))}
    ELSE {}

\* ForeachLoop storing the item of the iteration that threw
ForeachLoop_KeepsPartialItem(step, collector, scope, count, idx, pg, top, cb, log, obs) ==
    IF idx >= count THEN {Outcome(collector, FALSE, FALSE, obs)}
    ELSE LET itemCollector == SeedItemCollector(collector)
         IN  ScrollIntoView(step, collector, scope, idx, log, obs) \cup
             UNION { IF o.thrown
                     THEN {Outcome(Put(collector, ItemKey(idx), ObjVal(o.col)), TRUE, FALSE,
                                   obs \o o.obs)}
                     ELSE ForeachLoop(step, Put(collector, ItemKey(idx), ObjVal(o.col)),
                                      scope, count, idx + 1, pg, top, cb, log,
                                      obs \o o.obs \o EmitItem(step, scope, idx, o.col, cb))
                     : o \in ForeachSubSteps(step, 1, itemCollector, scope, idx, pg, top,
                                             cb, <<>>) }

\* ForeachLoop going on with the next iteration before the item is emitted
ForeachLoop_EmitsLate(step, collector, scope, count, idx, pg, top, cb, log, obs) ==
    IF idx >= count THEN {Outcome(collector, FALSE, FALSE, obs)}
    ELSE LET itemCollector == SeedItemCollector(collector)
         IN  ScrollIntoView(step, collector, scope, idx, log, obs) \cup
             UNION { IF o.thrown
                     THEN {Outcome(collector, TRUE, FALSE, obs \o o.obs)}
                     ELSE { [r EXCEPT !.obs = r.obs \o EmitItem(step, scope, idx, o.col, cb)]
                            : r \in ForeachLoop(step, Put(collector, ItemKey(idx), ObjVal(o.col)),
                                                scope, count, idx + 1, pg, top, cb, log,
                                                obs \o o.obs) }
                     : o \in ForeachSubSteps(step, 1, itemCollector, scope, idx, pg, top,
                                             cb, <<>>) }

\* for (let idx = 0; idx < count; idx++): the scroll, a fresh item collector
\* seeded with the parent's non-item keys, the sub-steps, collector[item_idx],
\* the emission
ForeachLoop(step, collector, scope, count, idx, pg, top, cb, log, obs) ==
    IF idx >= count THEN {Outcome(collector, FALSE, FALSE, obs)}
    ELSE LET itemCollector == SeedItemCollector(collector)
         IN  ScrollIntoView(step, collector, scope, idx, log, obs) \cup
             UNION { IF o.thrown
                     THEN {Outcome(collector, TRUE, FALSE, obs \o o.obs)}
                     ELSE ForeachLoop(step, Put(collector, ItemKey(idx), ObjVal(o.col)),
                                      scope, count, idx + 1, pg, top, cb, log,
                                      obs \o o.obs \o EmitItem(step, scope, idx, o.col, cb))
                     : o \in ForeachSubSteps(step, 1, itemCollector, scope, idx, pg, top,
                                             cb, <<>>) }

\* case 'foreach'
ForeachStep(step, collector, scope, pg, top, cb, log) ==
    IF step.object = <<>> \/ Len(step.subSteps) = 0
    THEN {Outcome(collector, TRUE, FALSE, Logged(log, Event("config", step, scope, 0, Null)))}
    ELSE UNION { ForeachLoop(step, collector, scope, count, 0, pg, top, cb, log,
                             Logged(log, Event("count", step, scope, count, Null)))
                 : count \in MatchCounts(scope, top) }

\* the page number of the child page an open step creates from page pg
ChildPage(pg) == pg + CountCap + 1

\* a page created or closed, a sub-step begun on the child page, a child
\* collector merged: recorded at every depth
PageEvent(e, step, scope, rec) == <<Event(e, step, scope, 0, rec)>>

\* the catch around a sub-step of open: "Sub-step in open failed"
OpenSubStepFailed(o, cloned, scope, n) ==
    IF o.thrown THEN <<Event("openSubThrew", cloned, scope, n, Null)>> ELSE <<>>

\* OpenCaught swallowing the error whatever the step says
OpenCaught_Swallows(step, collector, scope, obs) ==
    Outcome(collector, FALSE, FALSE, obs)

\* how the outer try of case 'open' ends when an error reaches its catch:
\* rethrown only when the open step has terminateonerror
OpenCaught(step, collector, scope, obs) ==
    Outcome(collector, step.terminateonerror, FALSE, obs)

\* for (const s of step.subSteps) of case 'open': a plain copy of the sub-step
\* runs on the child page, in the child collector, without scope; a throw
\* leaves the loop only when the sub-step has terminateonerror
OpenSubSteps(step, n, innerCollected, scope, pg, top, cb, obs) ==
    IF n > Len(step.subSteps) THEN {Outcome(innerCollected, FALSE, FALSE, obs)}
    ELSE LET cloned == step.subSteps[n]
             began == obs \o PageEvent("openSub", cloned, scope, Null)
         IN  UNION { IF o.thrown /\ cloned.terminateonerror
                     THEN {Outcome(o.col, TRUE, FALSE,
                                   began \o o.obs \o OpenSubStepFailed(o, cloned, scope, n))}
                     ELSE OpenSubSteps(step, n + 1, o.col, scope, pg, top, cb,
                                       began \o o.obs \o OpenSubStepFailed(o, cloned, scope, n))
                     : o \in executeStep(cloned, innerCollected, <<>>, ChildPage(pg), top, cb, FALSE) }

\* the child page of case 'open' once it exists: its load (newPage.goto, or
\* waitForLoadState after the modified click) may fail; else the sub-steps run
\* in a child collector seeded with the parent's non-item keys, the child
\* collector is merged into the parent and the child page is closed
OpenChild(step, collector, scope, pg, top, cb, log, obs) ==
    LET opened == obs \o PageEvent("pageOpened", step, scope, Null)
        innerCollected == SelectSeq(collector, IsContextEntry)
    IN  {OpenCaught(step, collector, scope,
                    opened \o Logged(log, Event("childLoadFailed", step, scope, 0, Null)))}
        \cup
        UNION { IF o.thrown
                THEN {OpenCaught(step, collector, scope, opened \o o.obs)}
                ELSE LET merged == Assign(collector, o.col)
                     IN  {Outcome(merged, FALSE, FALSE,
                                  opened \o o.obs
                                    \o PageEvent("merged", step, scope, ObjVal(merged))
                                    \o PageEvent("pageClosed", step, scope, Null))}
                : o \in OpenSubSteps(step, 1, innerCollected, scope, pg, top, cb, <<>>) }

\* case 'open': the checks; zero matches return at once; reading the href or
\* the click that should open the tab may fail before a child page exists
OpenStep(step, collector, scope, pg, top, cb, log) ==
    IF step.object = <<>> \/ Len(step.subSteps) = 0
    THEN {Outcome(collector, TRUE, FALSE, Logged(log, Event("config", step, scope, 0, Null)))}
    ELSE {Outcome(collector, FALSE, TRUE, Logged(log, Event("zero", step, scope, 0, Null))),
          OpenCaught(step, collector, scope,
                     Logged(log, Event("openFailed", step, scope, 0, Null)))}
         \cup OpenChild(step, collector, scope, pg, top, cb, log, <<>>)

executeStep(step, collector, scope, pg, top, cb, log) ==
    LET outcomes ==
            CASE step.action = "navigate" -> navigate(step, collector, scope, log)
              [] step.action = "input" -> input(step, collector, scope, log)
              [] step.action = "click" -> ClickStep(step, collector, scope, log)
              [] step.action = "data" -> DataStep(step, collector, scope, pg, log)
              [] step.action = "foreach" -> ForeachStep(step, collector, scope, pg, top, cb, log)
              [] step.action = "open" -> OpenStep(step, collector, scope, pg, top, cb, log)
              [] step.action \in FileActions -> FileCapture(step, collector, scope, log)
              [] OTHER -> {Outcome(collector, FALSE, FALSE, <<>>)}
    IN  { PostWait(step, scope, log,
                   [o EXCEPT !.obs = Logged(log, Event("step", step, scope, 0, Null)) \o o.obs])
          : o \in outcomes }

RECURSIVE StepListFrom(_, _, _, _, _, _, _)

\* StepListFrom rethrowing whatever a step throws
StepListFrom_Rethrows(steps, n, collected0, pg, top, cb, obs) ==
    IF n > Len(steps) THEN {Outcome(collected0, FALSE, FALSE, obs)}
    ELSE UNION { IF o.thrown
                 THEN {Outcome(o.col, TRUE, FALSE, obs \o o.obs)}
                 ELSE StepListFrom(steps, n + 1, o.col, pg, top, cb, obs \o o.obs)
                 : o \in executeStep(steps[n], collected0, <<>>, pg, top, cb, TRUE) }

\* for (const step of steps): a throw is rethrown when the step has
\* terminateonerror and swallowed otherwise
StepListFrom(steps, n, collected0, pg, top, cb, obs) ==
    IF n > Len(steps) THEN {Outcome(collected0, FALSE, FALSE, obs)}
    ELSE UNION { IF o.thrown /\ steps[n].terminateonerror
                 THEN {Outcome(o.col, TRUE, FALSE, obs \o o.obs)}
                 ELSE StepListFrom(steps, n + 1, o.col, pg, top, cb, obs \o o.obs)
                 : o \in executeStep(steps[n], collected0, <<>>, pg, top, cb, TRUE) }

executeStepList(steps, collected0, pg, top, cb) ==
    StepListFrom(steps, 1, collected0, pg, top, cb, <<>>)

----------------------------------------------------------------------------
(* Step descriptors the runs are drawn from *)

Data(id, object, key) ==
    [BaseStep(id, "data") EXCEPT !.object_type = "tag", !.object = object, !.key = key]

Foreach(id, object, indexKey, subSteps) ==
    [BaseStep(id, "foreach") EXCEPT !.object_type = "class", !.object = object,
                                    !.index_key = indexKey, !.subSteps = subSteps]

Click(id, object) ==
    [BaseStep(id, "click") EXCEPT !.object_type = "id", !.object = object]

Navigate(id, url) == [BaseStep(id, "navigate") EXCEPT !.value = url]

Open(id, object, subSteps) ==
    [BaseStep(id, "open") EXCEPT !.object_type = "tag", !.object = object,
                                 !.subSteps = subSteps]

File(action, id, object, value, key) ==
    [BaseStep(id, action) EXCEPT !.object_type = "tag", !.object = object,
                                 !.value = value, !.key = key]

Terminating(step) == [step EXCEPT !.terminateonerror = TRUE]

Waiting(step) == [step EXCEPT !.wait = 100]

GetTitle == Data(<<"get_title">>, <<"h1">>, <<"title">>)
GetLink == Data(<<"get_link">>, <<"a">>, <<"link">>)
GetItemTitle == Data(<<"get_article_title">>, <<"h2">>, <<"title">>)
GetNumbered == Data(<<"get_numbered">>, <<"h2">>, <<"title_", "{{i}}">>)
GetById == Data(<<"get_by_id">>, <<"h3">>, <<>>)
GetAnonymous == Data(<<>>, <<"h4">>, <<>>)
GetPageTitle == Data(<<"get_page_title">>, <<"h1">>, <<"page_title">>)
ClickMissing == Click(<<"click_nonexistent">>, <<"non-existent-element">>)
ClickButton == Click(<<"critical_step">>, <<"important-button">>)
GoTo == Navigate(<<"navigate">>, <<"url">>)
GoNowhere == Navigate(<<"navigate_nowhere">>, <<>>)

Articles == Foreach(<<"collect_articles">>, <<"article">>, "", <<GetItemTitle, GetLink>>)
ArticleTitles == Foreach(<<"collect_titles">>, <<"article">>, "", <<GetItemTitle>>)
Numbered == [Foreach(<<"collect_numbered">>, <<"article">>, "", <<GetNumbered>>)
               EXCEPT !.autoScroll = FALSE]
\* an indexed key next to a key the parent may hold already
NumberedTitles == [Foreach(<<"collect_numbered_titles">>, <<"article">>, "",
                           <<GetNumbered, GetTitle>>)
                     EXCEPT !.autoScroll = FALSE]
Clicks == Foreach(<<"click_each">>, <<"article">>, "", <<ClickMissing>>)
Shadowing == Foreach(<<"collect_shadowing">>, <<"article">>, "", <<GetTitle>>)
Fragile == Foreach(<<"collect_fragile">>, <<"article">>, "",
                   <<Terminating(GoTo), GetItemTitle>>)
Sturdy == Foreach(<<"collect_sturdy">>, <<"article">>, "", <<GoTo, GetItemTitle>>)
LoopInner == Foreach(<<"loopInner">>, <<"child">>, "j",
                     <<Data(<<"attachment_name">>, <<".">>, <<"attachment_name">>)>>)
LoopOuter == Foreach(<<"loopOuter">>, <<"parent">>, "i",
                     <<Data(<<"meeting_title">>, <<"h1">>, <<"meeting_title">>), LoopInner>>)
\* the nested loops without the scroll into view
QuietInner == [LoopInner EXCEPT !.autoScroll = FALSE]
QuietOuter == [Foreach(<<"loopOuter">>, <<"parent">>, "i", <<QuietInner>>)
                 EXCEPT !.autoScroll = FALSE]
NoSubSteps == Foreach(<<"empty_loop">>, <<"article">>, "", <<>>)

NoSelector == Foreach(<<"loop_nowhere">>, <<>>, "", <<GetItemTitle>>)

GetDetail == Data(<<"get_detail">>, <<"p">>, <<"detail">>)
OpenDetail == Open(<<"open_detail">>, <<"a">>, <<GetDetail>>)
OpenFragile == Open(<<"open_fragile">>, <<"a">>, <<Terminating(GoTo), GetDetail>>)
OpenNowhere == Open(<<"open_nowhere">>, <<>>, <<GetDetail>>)
OpenNothing == Open(<<"open_nothing">>, <<"a">>, <<>>)
Details == Foreach(<<"each_detail">>, <<"article">>, "", <<GetItemTitle, OpenDetail>>)

SavePdf == File("savePDF", <<"save_pdf">>, <<>>, <<"out/", "{{title}}", ".pdf">>, <<"pdf">>)
PrintPdf == File("printToPDF", <<"print_pdf">>, <<>>, <<"out/page.pdf">>, <<>>)
EventDownload == File("eventBaseDownload", <<>>, <<"a">>, <<"dl/", "{{title}}">>, <<>>)
DownloadFile == File("downloadFile", <<"download">>, <<"a">>, <<"dl/", "{{title}}">>, <<"file_path">>)
DownloadPdf == File("downloadPDF", <<"download_pdf">>, <<"a">>, <<"dl/doc.pdf">>, <<>>)

\* the file-capture steps with a target path and, where it is needed, a locator
FileSteps == {SavePdf, PrintPdf, EventDownload, DownloadFile, DownloadPdf}

WithoutValue(step) == [step EXCEPT !.value = <<>>]
WithoutObject(step) == [step EXCEPT !.object = <<>>]

\* the steps given to executeStep on their own
SingleSteps ==
    {GetTitle, Waiting(GetTitle), GetById, GetAnonymous, GetNumbered,
     ClickMissing, Waiting(ClickMissing), GoTo, GoNowhere, Terminating(GoTo),
     Articles, ArticleTitles, Numbered, NumberedTitles, Clicks, Shadowing, Fragile,
     Terminating(Fragile), Sturdy, LoopOuter, LoopInner, NoSubSteps, NoSelector,
     ClickButton, Terminating(ClickButton),
     OpenDetail, Waiting(OpenDetail), Terminating(OpenDetail), OpenFragile,
     Terminating(OpenFragile), OpenNowhere, OpenNothing, Details}
    \cup FileSteps
    \cup {Waiting(step) : step \in FileSteps}
    \cup {WithoutValue(step) : step \in FileSteps}
    \cup {WithoutObject(step) : step \in FileSteps}

\* the step lists given to executeStepList
StepLists ==
    {<<>>,
     <<GoTo, GetTitle>>,
     <<GoTo, ClickMissing, GetTitle>>,
     <<Terminating(GoTo), GetTitle>>,
     <<GoNowhere, GetTitle>>,
     <<GoTo, Terminating(GoNowhere), GetTitle>>,
     <<GetTitle, Terminating(GoTo), GetLink>>,
     <<GetById, GetAnonymous, Waiting(GetTitle)>>,
     <<GoTo, Articles>>,
     <<GetPageTitle, ArticleTitles>>,
     <<GetTitle, Shadowing>>,
     <<GetPageTitle, Fragile, GetLink>>,
     <<GetPageTitle, Terminating(Fragile), GetLink>>,
     <<NoSubSteps, GetTitle>>,
     <<ArticleTitles, Clicks>>,
     <<Numbered, ArticleTitles>>,
     <<GetTitle, SavePdf, GetLink>>,
     <<GetTitle, Terminating(WithoutValue(SavePdf)), GetLink>>,
     <<GetPageTitle, OpenDetail, GetLink>>,
     <<GetTitle, ClickButton, GetLink>>,
     <<GetTitle, Terminating(ClickButton), GetLink>>,
     <<GetPageTitle, Terminating(OpenFragile), GetLink>>}

\* the collectors a run starts from: empty, or holding ancestor context
StartCollectors ==
    {<<>>,
     <<[k |-> <<"section">>, v |-> StrVal(<<"News">>)]>>,
     <<[k |-> <<"title">>, v |-> StrVal(<<"Old">>)],
       [k |-> <<"item_", "0">>, v |-> ObjVal(<<[k |-> <<"stale">>, v |-> Null]>>)]>>}

\* the foreach scopes executeStep is called with (scopeLocator): the page, or an element
StartScopes == {<<>>, <<0>>, <<1>>}

----------------------------------------------------------------------------
(* Specification of the step interpreter: one call of executeStep or of    *)
(* executeStepList on an input drawn from the sets above.                  *)

\* no savePDF step is being followed
PdfIdle ==
    /\ pdfPc = "idle"
    /\ pdfSaved = FALSE
    /\ savedPath = Null
    /\ interceptedData = FALSE
    /\ routed = FALSE
    /\ handlers = [i \in 1..MaxRequests |-> "none"]
    /\ pdfLog = <<>>

TabIdle ==
    /\ tmpl = [none |-> TRUE]
    /\ pc = "idle"
    /\ pageIndex = 0
    /\ resultIndex = 0
    /\ results = <<>>
    /\ onResultCallback = FALSE
    /\ delivered = <<>>
    /\ origin = <<>>
    /\ pageNo = 0
    /\ inits = 0
    /\ collects = 0
    /\ advances = 0
    /\ lastAdv = "none"
    /\ afterFail = FALSE
    /\ collected = <<>>

\* a foreach whose sub-steps hold another foreach
IsNested(step) ==
    \E n \in 1..Len(step.subSteps) : step.subSteps[n].action = "foreach"

\* the calls of executeStep: leaf steps and the inner loop from every collector
\* and scope, the other loops from the page, with and without the callback, the
\* nested loop from one collector with the callback.  `cb` says whether the global
\* onResultCallback is registered when the call is made, `onResult` whether
\* the call is given the onResult argument, which executeStep hands on to the
\* sub-steps of a foreach and reads nowhere (given with two of the loops).
StepCalls ==
    { c \in [call : {"executeStep"}, steps : {<<step>> : step \in SingleSteps},
             col : StartCollectors, scope : StartScopes, cb : BOOLEAN,
             onResult : BOOLEAN] :
        /\ c.scope # <<>> => c.steps[1].action \in {"data", "click"} \/ c.steps[1] = LoopInner
        /\ c.cb => c.steps[1].action = "foreach"
        /\ c.onResult => c.steps[1] \in {ArticleTitles, NoSubSteps} /\ c.scope = <<>>
        /\ IsNested(c.steps[1]) =>
              c.cb /\ c.col = <<[k |-> <<"section">>, v |-> StrVal(<<"News">>)]>> }

\* the calls of executeStepList, each from the page
StepListCalls ==
    { c \in [call : {"executeStepList"}, steps : StepLists,
             col : StartCollectors, scope : {<<>>}, cb : BOOLEAN] :
        c.cb => \E n \in 1..Len(c.steps) : c.steps[n].action = "foreach" }

StepsInit ==
    /\ TabIdle
    /\ PdfIdle
    /\ phase = "ready"
    /\ out = Outcome(<<>>, FALSE, FALSE, <<>>)
    /\ sx \in StepCalls \cup StepListCalls

RunStep ==
    /\ phase = "ready"
    /\ sx.call = "executeStep"
    /\ \E o \in executeStep(sx.steps[1], sx.col, sx.scope, 0, MaxMatch, sx.cb, TRUE) :
          out' = o
    /\ phase' = "ran"
    /\ UNCHANGED <<sx, tabVars, pdfVars>>

RunStepList ==
    /\ phase = "ready"
    /\ sx.call = "executeStepList"
    /\ \E o \in executeStepList(sx.steps, sx.col, 0, MaxMatch, sx.cb) :
          out' = o
    /\ phase' = "ran"
    /\ UNCHANGED <<sx, tabVars, pdfVars>>

StepsNext == RunStep \/ RunStepList

SpecSteps == StepsInit /\ [][StepsNext]_vars

----------------------------------------------------------------------------
(* Specification of cloneStepWithIndex: a step is cloned with an index and *)
(* a token name, and the clone is cloned again with another.               *)

\* a locator that uses the indices of both loops
Combined ==
    Data(<<"combined">>, <<"//div[@id='p", "{{i}}", "c", "{{j}}", "']">>, <<"val">>)
InnerCombined == Foreach(<<"loopInner">>, <<"child">>, "j", <<Combined>>)
OuterCombined == Foreach(<<"loopOuter">>, <<"parent">>, "i", <<InnerCombined>>)

\* placeholders in object, value and key: spaced, plus one, and of another name
Labelled ==
    [Data(<<"row">>, <<"tr[", "{{i_plus1}}", "]">>, <<"row_", "{{ i }}", "_", "{{j_plus1}}">>)
       EXCEPT !.value = <<"{{j}}", "-", "{{index}}", "-", "{{ j_plus1 }}">>]
LabelledRows == Foreach(<<"rows">>, <<"table_", "{{j}}">>, "i", <<Labelled, GetNumbered>>)

\* a loop without index_key: its token is the default, i
DefaultRows == Foreach(<<"default_rows">>, <<"tbody_", "{{i}}">>, "", <<Labelled>>)

\* the steps given to cloneStepWithIndex
CloneSteps ==
    {Combined, InnerCombined, OuterCombined, Labelled, LabelledRows, GetTitle, DefaultRows}

\* the token names given to cloneStepWithIndex
IndexKeys == {"i", "j", "."}

CloneCalls ==
    [call : {"cloneStepWithIndex"}, step : CloneSteps, idx : 0..MaxIndex, char : IndexKeys]

\* what a call of cloneStepWithIndex was given and what it returned
Cloned(step, idx, char) ==
    [of |-> step, idx |-> idx, char |-> char, step |-> cloneStepWithIndex(step, idx, char)]

CloneInit ==
    /\ TabIdle
    /\ PdfIdle
    /\ phase = "ready"
    /\ out = Outcome(<<>>, FALSE, FALSE, <<>>)
    /\ sx \in CloneCalls

CloneStep ==
    /\ phase = "ready"
    /\ out' = Cloned(sx.step, sx.idx, sx.char)
    /\ phase' = "cloned"
    /\ UNCHANGED <<sx, tabVars, pdfVars>>

\* the clone is cloned again, as an inner loop does with the clone it was given
CloneAgain ==
    /\ phase = "cloned"
    /\ \E idx \in 0..MaxIndex, char \in IndexKeys :
          out' = Cloned(out.step, idx, char)
    /\ phase' = "recloned"
    /\ UNCHANGED <<sx, tabVars, pdfVars>>

CloneNext == CloneStep \/ CloneAgain

SpecClone == CloneInit /\ [][CloneNext]_vars

----------------------------------------------------------------------------
(* Specification of case 'savePDF', one await at a time: the main flow of   *)
(* the case and the invocations of the handler it registers with           *)
(* page.route('**/*') run on one event loop and interleave at their awaits. *)

\* the page the step runs on: page.url() is a PDF or not, over http or file
PageUrls == {"http_pdf", "http_html", "file_pdf", "file_html"}

\* currentUrl.includes('.pdf') || /\.pdf(\?|$)/i.test(currentUrl)
IsPdfUrl(url) == url \in {"http_pdf", "file_pdf"}

\* reloadUrl.startsWith('file://')
IsFileUrl(url) == url \in {"file_pdf", "file_html"}

PdfCalls ==
    [call : {"savePDF"}, step : {SavePdf, WithoutValue(SavePdf)},
     col : StartCollectors, url : PageUrls]

\* an entry of the history: the target file written by a stage, a write that
\* failed, a strategy that gave up, an error that reached the outer catch
PdfEvent(e, by) == [e |-> e, by |-> by]

\* the variables a write changes
PdfState(log, path, saved) == [log |-> log, savedPath |-> path, pdfSaved |-> saved]

PdfCurrent == PdfState(pdfLog, savedPath, pdfSaved)

\* fs.writeFileSync(resolvedPath, ...) or download.saveAs(resolvedPath), then
\* savedPath = resolvedPath; pdfSaved = true
Write(st, stage) ==
    PdfState(Append(st.log, PdfEvent("wrote", stage)),
             StrVal(ResolvedPath(sx.step, sx.col)), TRUE)

\* something else happened at a stage and nothing was written
Note(st, e, stage) == [st EXCEPT !.log = Append(@, PdfEvent(e, stage))]

\* the catch of the second try ("Error during PDF save"): the intercepted
\* buffer is written if nothing is saved yet; a failure of that write reaches
\* the outer catch ("savePDF failed")
InnerCatch(st) ==
    IF interceptedData /\ ~st.pdfSaved
    THEN {Write(st, "caught"),
          Note(Note(st, "writeFailed", "caught"), "outerCatch", "caught")}
    ELSE {st}

\* a write in the second try: done, or failed and caught
WriteOrCatch(st, stage) ==
    {Write(st, stage)} \cup InnerCatch(Note(st, "writeFailed", stage))

Apply(st) ==
    /\ pdfLog' = st.log
    /\ savedPath' = st.savedPath
    /\ pdfSaved' = st.pdfSaved

\* where the main flow awaits next once the direct download is over:
\* if (!pdfSaved), a file:// page that is no PDF waits a second, any other
\* page is reloaded
SecondTry(saved) ==
    IF saved THEN "finally"
    ELSE IF IsFileUrl(sx.url) /\ ~IsPdfUrl(sx.url) THEN "fileWait"
    ELSE "reload"

SavePdfInit ==
    /\ TabIdle
    /\ phase = "savePDF"
    /\ sx \in PdfCalls
    /\ out = Outcome(sx.col, FALSE, FALSE, <<>>)
    /\ pdfPc = "start"
    /\ pdfSaved = FALSE
    /\ savedPath = Null
    /\ interceptedData = FALSE
    /\ routed = FALSE
    /\ handlers = [i \in 1..MaxRequests |-> "none"]
    /\ pdfLog = <<>>

\* the check of step.value; waitForLoadState, whose failure is ignored
PdfChecks ==
    /\ pdfPc = "start"
    /\ IF sx.step.value = <<>>
       THEN /\ pdfPc' = "thrown"
            /\ out' = Outcome(sx.col, TRUE, FALSE, <<>>)
       ELSE /\ pdfPc' = "route"
            /\ UNCHANGED out
    /\ UNCHANGED <<sx, phase, tabVars, pdfSaved, savedPath, interceptedData, routed,
                   handlers, pdfLog>>

\* await page.route('**/*', handler): registered, or rejected into the outer
\* catch; then if (isPdfUrl && !pdfSaved) the direct download begins
PdfRoute ==
    /\ pdfPc = "route"
    /\ \/ /\ routed' = TRUE
          /\ pdfPc' = IF IsPdfUrl(sx.url) THEN "direct" ELSE SecondTry(FALSE)
          /\ UNCHANGED pdfLog
       \/ /\ pdfLog' = Append(pdfLog, PdfEvent("outerCatch", "route"))
          /\ pdfPc' = "finally"
          /\ UNCHANGED routed
    /\ UNCHANGED <<sx, out, phase, tabVars, pdfSaved, savedPath, interceptedData, handlers>>

\* the direct download: cookies, request.newContext, api.get, res.body are
\* awaited, then the file is written without looking at pdfSaved again; a
\* response that is not ok and every error are passed over
PdfDirect ==
    /\ pdfPc = "direct"
    /\ \E st \in {Write(PdfCurrent, "direct"),
                  Note(PdfCurrent, "writeFailed", "direct"),
                  Note(PdfCurrent, "gaveUp", "direct")} :
          /\ Apply(st)
          /\ pdfPc' = SecondTry(st.pdfSaved)
    /\ UNCHANGED <<sx, out, phase, tabVars, interceptedData, routed, handlers>>

\* the file:// page that is no PDF: after waitForTimeout(1000) an intercepted
\* buffer is written
PdfFileWait ==
    /\ pdfPc = "fileWait"
    /\ \E st \in (IF interceptedData
                  THEN WriteOrCatch(PdfCurrent, "fileIntercepted")
                  ELSE {PdfCurrent})
                 \cup InnerCatch(PdfCurrent) :
          Apply(st)
    /\ pdfPc' = "finally"
    /\ UNCHANGED <<sx, out, phase, tabVars, interceptedData, routed, handlers>>

\* await Promise.all([page.reload(...).catch(() => null),
\*                    page.waitForEvent('download', ...).catch(() => null)])
\* and the branch taken on its result
PdfReload ==
    /\ pdfPc = "reload"
    /\ \E response \in {"null", "pdf", "other"}, download \in BOOLEAN :
          IF download
          THEN pdfPc' = "saveAs" /\ UNCHANGED <<pdfLog, savedPath, pdfSaved>>
          ELSE IF response = "pdf" /\ ~pdfSaved
          THEN pdfPc' = "body" /\ UNCHANGED <<pdfLog, savedPath, pdfSaved>>
          ELSE IF response # "null"
          THEN pdfPc' = "lateWait" /\ UNCHANGED <<pdfLog, savedPath, pdfSaved>>
          ELSE /\ pdfPc' = "finally"
               /\ \E st \in (IF interceptedData /\ ~pdfSaved
                             THEN WriteOrCatch(PdfCurrent, "fallback")
                             ELSE {PdfCurrent}) :
                     Apply(st)
    /\ UNCHANGED <<sx, out, phase, tabVars, interceptedData, routed, handlers>>

\* await download.saveAs(resolvedPath)
PdfSaveAs ==
    /\ pdfPc = "saveAs"
    /\ \E st \in WriteOrCatch(PdfCurrent, "download") : Apply(st)
    /\ pdfPc' = "finally"
    /\ UNCHANGED <<sx, out, phase, tabVars, interceptedData, routed, handlers>>

\* await response.body() of the reload's PDF response, then the write when the
\* buffer is not empty
PdfBody ==
    /\ pdfPc = "body"
    /\ \E st \in WriteOrCatch(PdfCurrent, "response") \cup {PdfCurrent}
                 \cup InnerCatch(PdfCurrent) :
          Apply(st)
    /\ pdfPc' = "finally"
    /\ UNCHANGED <<sx, out, phase, tabVars, interceptedData, routed, handlers>>

\* await page.waitForTimeout(2000), then the intercepted buffer if nothing is saved
PdfLateWait ==
    /\ pdfPc = "lateWait"
    /\ \E st \in (IF interceptedData /\ ~pdfSaved
                  THEN WriteOrCatch(PdfCurrent, "late")
                  ELSE {PdfCurrent})
                 \cup InnerCatch(PdfCurrent) :
          Apply(st)
    /\ pdfPc' = "finally"
    /\ UNCHANGED <<sx, out, phase, tabVars, interceptedData, routed, handlers>>

\* PdfUnroute taking the route away only when nothing was saved
PdfUnroute_UnlessSaved ==
    /\ pdfPc = "finally"
    /\ routed' = (routed /\ pdfSaved)
    /\ pdfPc' = "store"
    /\ UNCHANGED <<sx, out, phase, tabVars, pdfSaved, savedPath, interceptedData,
                   handlers, pdfLog>>

\* finally: try { await page.unroute('**/*') } catch {}
PdfUnroute ==
    /\ pdfPc = "finally"
    /\ routed' = FALSE
    /\ pdfPc' = "store"
    /\ UNCHANGED <<sx, out, phase, tabVars, pdfSaved, savedPath, interceptedData,
                   handlers, pdfLog>>

\* finally, after the unroute: collector[collectorKey] = savedPath
PdfStore ==
    /\ pdfPc = "store"
    /\ out' = Outcome(Put(sx.col, CollectorKey(sx.step, "file"), savedPath),
                      FALSE, FALSE, <<>>)
    /\ pdfPc' = "done"
    /\ UNCHANGED <<sx, phase, tabVars, pdfSaved, savedPath, interceptedData, routed,
                   handlers, pdfLog>>

\* the page requests a URL with '.pdf' while the route is registered: the
\* handler is invoked and awaits route.fetch()
HandlerInvoked(i) ==
    /\ routed
    /\ handlers[i] = "none"
    /\ i > 1 => handlers[i - 1] # "none"
    /\ handlers' = [handlers EXCEPT ![i] = "fetching"]
    /\ UNCHANGED <<sx, out, phase, tabVars, pdfPc, pdfSaved, savedPath, interceptedData,
                   routed, pdfLog>>

\* route.fetch() is over: without a response the handler returns, else it
\* awaits response.body()
HandlerFetched(i) ==
    /\ handlers[i] = "fetching"
    /\ \E next \in {"reading", "returned"} : handlers' = [handlers EXCEPT ![i] = next]
    /\ UNCHANGED <<sx, out, phase, tabVars, pdfPc, pdfSaved, savedPath, interceptedData,
                   routed, pdfLog>>

\* response.body() is over: if (!pdfSaved && buffer.length > 0) the buffer is
\* kept and written at once, a failing write being caught; then route.fulfill
HandlerBody(i) ==
    /\ handlers[i] = "reading"
    /\ handlers' = [handlers EXCEPT ![i] = "returned"]
    /\ \/ /\ ~pdfSaved
          /\ interceptedData' = TRUE
          /\ \E st \in {Write(PdfCurrent, "route"), Note(PdfCurrent, "writeFailed", "route")} :
                Apply(st)
       \/ UNCHANGED <<interceptedData, pdfLog, savedPath, pdfSaved>>
    /\ UNCHANGED <<sx, out, phase, tabVars, pdfPc, routed>>

SavePdfNext ==
    \/ PdfChecks
    \/ PdfRoute
    \/ PdfDirect
    \/ PdfFileWait
    \/ PdfReload
    \/ PdfSaveAs
    \/ PdfBody
    \/ PdfLateWait
    \/ PdfUnroute
    \/ PdfStore
    \/ \E i \in 1..MaxRequests : HandlerInvoked(i)
    \/ \E i \in 1..MaxRequests : HandlerFetched(i)
    \/ \E i \in 1..MaxRequests : HandlerBody(i)

SpecSavePdf == SavePdfInit /\ [][SavePdfNext]_vars

----------------------------------------------------------------------------
(* Tab runner: executeTab (tab-executor.ts)                                *)

\* a PaginationConfig; maxPages = 0 stands for an absent maxPages as well,
\* the code reads it only as `pagination.maxPages && ...`
PaginationConfig(strategy, nextButton, maxPages, paginationFirst, paginateAllFirst) ==
    [strategy |-> strategy, nextButton |-> nextButton, maxPages |-> maxPages,
     paginationFirst |-> paginationFirst, paginateAllFirst |-> paginateAllFirst]

NoPagination == PaginationConfig("none", FALSE, 0, FALSE, FALSE)

\* a TabTemplate and the onResult argument of executeTab
TabTemplate(initSteps, perPageSteps, steps, hasPagination, pagination, onResult) ==
    [initSteps |-> initSteps, perPageSteps |-> perPageSteps, steps |-> steps,
     hasPagination |-> hasPagination, pagination |-> pagination, onResult |-> onResult]

\* what a call of runPagination did: the boolean it returned, or that it threw
Advanced(ok, why, thrown) == [ok |-> ok, why |-> why, thrown |-> thrown]

\* runPagination whose scroll reports the end of the pages
runPagination_ScrollEnds(pagination) ==
    IF pagination.strategy = "next" /\ pagination.nextButton
    THEN {Advanced(FALSE, "notFound", FALSE), Advanced(FALSE, "disabled", FALSE),
          Advanced(FALSE, "clickFailed", FALSE), Advanced(TRUE, "clicked", FALSE)}
    ELSE IF pagination.strategy = "scroll"
    THEN {Advanced(TRUE, "scrolled", FALSE), Advanced(FALSE, "scrollEnded", FALSE),
          Advanced(FALSE, "scrollFailed", TRUE)}
    ELSE {Advanced(FALSE, "noStrategy", FALSE)}

\* runPagination: next catches every failure and returns false; the scroll
\* branch has no try, so a failing page.evaluate leaves executeTab
runPagination(pagination) ==
    IF pagination.strategy = "next" /\ pagination.nextButton
    THEN {Advanced(FALSE, "notFound", FALSE), Advanced(FALSE, "disabled", FALSE),
          Advanced(FALSE, "clickFailed", FALSE), Advanced(TRUE, "clicked", FALSE)}
    ELSE IF pagination.strategy = "scroll"
    THEN {Advanced(TRUE, "scrolled", FALSE), Advanced(FALSE, "scrollFailed", TRUE)}
    ELSE {Advanced(FALSE, "noStrategy", FALSE)}

\* the outcome of an advance as the loop sees it
AdvanceResult(paginated) ==
    IF paginated.thrown THEN "threw" ELSE IF paginated.ok THEN "ok" ELSE "fail"

\* maxPages?: number -- the property left out reads as undefined; a number
\* is truthy unless it is 0
Undefined == -1
Truthy(n) == n # Undefined /\ n # 0

\* MaxPagesReached comparing with > : one page too many
MaxPagesReached_OffByOne(pagination, index) ==
    pagination.maxPages # 0 /\ index > pagination.maxPages

\* MaxPagesReached testing only that maxPages is there: 0 is a cap
MaxPagesReached_ZeroCaps(pagination, index) ==
    pagination.maxPages # Undefined /\ index >= pagination.maxPages

\* pagination.maxPages && pageIndex >= pagination.maxPages
MaxPagesReached(pagination, index) ==
    Truthy(pagination.maxPages) /\ index >= pagination.maxPages

\* stepsForPage preferring the legacy steps
stepsForPage_LegacyFirst(template) ==
    IF Len(template.steps) > 0 THEN template.steps ELSE template.perPageSteps

\* template.perPageSteps && template.perPageSteps.length > 0
\*     ? template.perPageSteps : (template.steps ?? [])
stepsForPage(template) ==
    IF Len(template.perPageSteps) > 0 THEN template.perPageSteps ELSE template.steps

\* a call of the caller's onResult
Call(rec, index) == [rec |-> rec, idx |-> index]

\* an assembly in progress: the results, the running index, the callback calls
Assembly(res, index, calls) == [results |-> res, resultIndex |-> index, calls |-> calls]

RECURSIVE AssembleItems(_, _, _, _, _)

\* AssembleItems without the test for an empty item
AssembleItems_KeepsEmpty(col, itemKeys, a, onResult, globalCb) ==
    IF itemKeys = <<>> THEN a
    ELSE LET itemData == Get(col, itemKeys[1])
         IN  AssembleItems(col, Tail(itemKeys),
                 Assembly(Append(a.results, itemData), a.resultIndex + 1,
                          IF onResult /\ ~globalCb
                          THEN Append(a.calls, Call(itemData, a.resultIndex))
                          ELSE a.calls),
                 onResult, globalCb)

\* AssembleItems pushing each item together with the root collector's other keys
AssembleItems_MergesRoot(col, itemKeys, a, onResult, globalCb) ==
    IF itemKeys = <<>> THEN a
    ELSE LET itemData == Get(col, itemKeys[1])
             record == ObjVal(Assign(SelectSeq(col, IsContextEntry), itemData.c))
         IN  AssembleItems(col, Tail(itemKeys),
                 IF NonEmpty(itemData)
                 THEN Assembly(Append(a.results, record), a.resultIndex + 1,
                               IF onResult /\ ~globalCb
                               THEN Append(a.calls, Call(record, a.resultIndex))
                               ELSE a.calls)
                 ELSE a,
                 onResult, globalCb)

\* for (const key of itemKeys): a non-empty item is pushed; onResult is called
\* for it only when no global callback is registered
AssembleItems(col, itemKeys, a, onResult, globalCb) ==
    IF itemKeys = <<>> THEN a
    ELSE LET itemData == Get(col, itemKeys[1])
         IN  AssembleItems(col, Tail(itemKeys),
                 IF NonEmpty(itemData)
                 THEN Assembly(Append(a.results, itemData), a.resultIndex + 1,
                               IF onResult /\ ~globalCb
                               THEN Append(a.calls, Call(itemData, a.resultIndex))
                               ELSE a.calls)
                 ELSE a,
                 onResult, globalCb)

\* "after gathering data for this page": item_* keys become one record each,
\* otherwise a non-empty collector becomes one record
\* (`inLoop`: the default loop also increments resultIndex for that record, the
\* paginateAllFirst block does not)
AssemblePage(col, res, index, onResult, globalCb, inLoop) ==
    IF Len(col) > 0
    THEN LET itemKeys == Keys(SelectSeq(col, IsItemEntry))
         IN  IF Len(itemKeys) > 0
             THEN AssembleItems(col, itemKeys, Assembly(res, index, <<>>), onResult, globalCb)
             ELSE Assembly(Append(res, ObjVal(col)), IF inLoop THEN index + 1 ELSE index,
                           IF onResult THEN <<Call(ObjVal(col), index)>> ELSE <<>>)
    ELSE Assembly(res, index, <<>>)

\* the callback calls a step-list run made by streaming from foreach
Emissions(obs) ==
    LET emits == SelectSeq(obs, LAMBDA ev : ev.e = "emit")
    IN  [n \in 1..Len(emits) |-> Call(emits[n].rec, emits[n].n)]

\* where a call of the callback was made from: the foreach emission of a step
\* for the element at `path`, or the page assembly for the item at `path`
\* (<<>>: the whole collector), in the step-list run that began after `run` calls
Origin(via, run, step, path) == [via |-> via, run |-> run, step |-> step, path |-> path]

\* the origins of Emissions(obs)
Origins(obs, run) ==
    LET emits == SelectSeq(obs, LAMBDA ev : ev.e = "emit")
    IN  [n \in 1..Len(emits) |->
            Origin("foreach", run, emits[n].id, emits[n].scope \o <<emits[n].n>>)]

\* the origins of the calls of a page assembly
AssemblyOrigins(col, calls, run) ==
    LET itemKeys == Keys(SelectSeq(col, IsItemEntry))
        pushed == SelectSeq(itemKeys, LAMBDA k : NonEmpty(Get(col, k)))
    IN  [n \in 1..Len(calls) |->
            Origin("assembly", run, <<>>,
                   IF Len(itemKeys) > 0 THEN <<ItemIndex(pushed[n])>> ELSE <<>>)]

\* counters stop at CountCap
Count(n) == Min(n + 1, CountCap)

Terminal == {"done", "thrown"}

\* a tab run without a page cap
Uncapped(template) == template.hasPagination /\ ~Truthy(template.pagination.maxPages)

\* LoopTop without `pageIndex > 0`: the advance comes before the first page too
LoopTop_AdvancesFirstPage(template, index) ==
    IF template.hasPagination /\ template.pagination.paginationFirst
    THEN "advanceFirst" ELSE "collect"

\* LoopTop running the initSteps again at the top of every later iteration
LoopTop_RunsInitAgain(template, index) ==
    IF index > 0 THEN "start" ELSE "collect"

\* where the default loop goes after its first statement at the top of an iteration
LoopTop(template, index) ==
    IF template.hasPagination /\ template.pagination.paginationFirst /\ index > 0
    THEN "advanceFirst" ELSE "collect"

\* executeTab up to the pagination loop: the global callback is set from
\* onResult and the initSteps run once, in a collector of their own
Start ==
    /\ pc = "start"
    /\ onResultCallback' = tmpl.onResult
    /\ inits' = IF Len(tmpl.initSteps) > 0 THEN Count(inits) ELSE inits
    /\ \E o \in executeStepList(tmpl.initSteps, <<>>, pageNo, MaxTabMatch, tmpl.onResult) :
          /\ delivered' = delivered \o Emissions(o.obs)
          /\ origin' = origin \o Origins(o.obs, Len(delivered))
          /\ pc' = IF o.thrown THEN "thrown"
                   ELSE IF tmpl.hasPagination /\ tmpl.pagination.paginateAllFirst
                   THEN "paginateAll"
                   ELSE LoopTop(tmpl, 0)
    /\ UNCHANGED <<tmpl, pageIndex, resultIndex, results, pageNo, collects, advances,
                   lastAdv, afterFail, collected, stepVars>>

\* PaginateAll without `if (!paginated) break`
PaginateAll_IgnoresFailure ==
    /\ pc = "paginateAll"
    /\ IF MaxPagesReached(tmpl.pagination, pageIndex)
       THEN /\ pc' = "collectAll"
            /\ UNCHANGED <<pageIndex, pageNo, advances, lastAdv>>
       ELSE \E paginated \in runPagination(tmpl.pagination) :
               /\ advances' = Count(advances)
               /\ lastAdv' = AdvanceResult(paginated)
               /\ pageNo' = IF paginated.ok THEN Count(pageNo) ELSE pageNo
               /\ pageIndex' = IF paginated.ok THEN Count(pageIndex) ELSE pageIndex
               /\ pc' = IF paginated.thrown THEN "thrown" ELSE "paginateAll"
    /\ UNCHANGED <<tmpl, inits, resultIndex, results, onResultCallback, delivered, origin, collects,
                   afterFail, collected, stepVars>>

\* one iteration of the paginateAllFirst loop: stop at maxPages, else advance
PaginateAll ==
    /\ pc = "paginateAll"
    /\ IF MaxPagesReached(tmpl.pagination, pageIndex)
       THEN /\ pc' = "collectAll"
            /\ UNCHANGED <<pageIndex, pageNo, advances, lastAdv>>
       ELSE \E paginated \in runPagination(tmpl.pagination) :
               /\ advances' = Count(advances)
               /\ lastAdv' = AdvanceResult(paginated)
               /\ pageNo' = IF paginated.ok THEN Count(pageNo) ELSE pageNo
               /\ pageIndex' = IF paginated.ok THEN Count(pageIndex) ELSE pageIndex
               /\ pc' = IF paginated.thrown THEN "thrown"
                        ELSE IF paginated.ok THEN "paginateAll" ELSE "collectAll"
    /\ UNCHANGED <<tmpl, inits, resultIndex, results, onResultCallback, delivered, origin, collects,
                   afterFail, collected, stepVars>>

\* the onResult the caller gave is one that throws whenever it is called
CallbackThrows == sx.call = "throwingCallback"

\* the per-page steps of one iteration and the assembly of its records; an
\* uncapped run meets pages without records once it holds MaxResults records.
\* The assembly calls onResult outside any try: a callback that throws there
\* leaves executeTab after the record was pushed, before resultIndex++.
CollectInto(nextPc, inLoop) ==
    \E o \in executeStepList(stepsForPage(tmpl), <<>>, pageNo, MaxTabMatch,
                             onResultCallback) :
        LET a == AssemblePage(o.col, results, resultIndex, tmpl.onResult, onResultCallback,
                              inLoop)
        IN  /\ Uncapped(tmpl) /\ ~o.thrown => Len(a.results) <= MaxResults
            /\ collects' = Count(collects)
            /\ afterFail' = (afterFail \/ lastAdv = "fail")
            /\ collected' = o.col
            /\ IF o.thrown
               THEN /\ pc' = "thrown"
                    /\ delivered' = delivered \o Emissions(o.obs)
                    /\ origin' = origin \o Origins(o.obs, Len(delivered))
                    /\ UNCHANGED <<results, resultIndex>>
               ELSE IF CallbackThrows /\ a.calls # <<>>
               THEN /\ pc' = "thrown"
                    /\ delivered' = delivered \o Emissions(o.obs) \o <<a.calls[1]>>
                    /\ origin' = origin \o Origins(o.obs, Len(delivered))
                                         \o AssemblyOrigins(o.col, <<a.calls[1]>>, Len(delivered))
                    /\ results' = SubSeq(a.results, 1, Len(results) + 1)
                    /\ UNCHANGED resultIndex
               ELSE /\ pc' = nextPc
                    /\ delivered' = delivered \o Emissions(o.obs) \o a.calls
                    /\ origin' = origin \o Origins(o.obs, Len(delivered))
                                         \o AssemblyOrigins(o.col, a.calls, Len(delivered))
                    /\ results' = a.results
                    /\ resultIndex' = a.resultIndex

\* paginateAllFirst: after all pagination, the per-page steps run once
CollectAll ==
    /\ pc = "collectAll"
    /\ CollectInto("done", FALSE)
    /\ UNCHANGED <<tmpl, inits, pageIndex, onResultCallback, pageNo, advances, lastAdv, stepVars>>

\* the default loop from the per-page steps to the end of the iteration
Collect ==
    /\ pc = "collect"
    /\ CollectInto(IF ~tmpl.hasPagination THEN "done"
                   ELSE IF MaxPagesReached(tmpl.pagination, pageIndex + 1) THEN "done"
                   ELSE IF ~tmpl.pagination.paginationFirst THEN "advance"
                   ELSE LoopTop(tmpl, pageIndex + 1),
                   TRUE)
    /\ pageIndex' = IF tmpl.hasPagination /\ pc' # "thrown" THEN Count(pageIndex)
                    ELSE pageIndex
    /\ UNCHANGED <<tmpl, inits, onResultCallback, pageNo, advances, lastAdv, stepVars>>

\* AdvanceTo without `if (!paginated) break`: the loop goes on
AdvanceTo_IgnoresFailure(nextPc) ==
    \E paginated \in runPagination(tmpl.pagination) :
        /\ advances' = Count(advances)
        /\ afterFail' = (afterFail \/ lastAdv = "fail")
        /\ lastAdv' = AdvanceResult(paginated)
        /\ pageNo' = IF paginated.ok THEN Count(pageNo) ELSE pageNo
        /\ pc' = IF paginated.thrown THEN "thrown" ELSE nextPc

\* AdvanceTo retrying a failed advance instead of leaving the loop
AdvanceTo_RetriesOnFailure(nextPc) ==
    \E paginated \in runPagination(tmpl.pagination) :
        /\ advances' = Count(advances)
        /\ afterFail' = (afterFail \/ lastAdv = "fail")
        /\ lastAdv' = AdvanceResult(paginated)
        /\ pageNo' = IF paginated.ok THEN Count(pageNo) ELSE pageNo
        /\ pc' = IF paginated.thrown THEN "thrown"
                 ELSE IF paginated.ok THEN nextPc ELSE pc

\* a call of runPagination from the default loop: a failed advance ends the loop
AdvanceTo(nextPc) ==
    \E paginated \in runPagination(tmpl.pagination) :
        /\ advances' = Count(advances)
        /\ afterFail' = (afterFail \/ lastAdv = "fail")
        /\ lastAdv' = AdvanceResult(paginated)
        /\ pageNo' = IF paginated.ok THEN Count(pageNo) ELSE pageNo
        /\ pc' = IF paginated.thrown THEN "thrown"
                 ELSE IF paginated.ok THEN nextPc ELSE "done"

\* paginationFirst: the advance at the top of every iteration but the first
AdvanceFirst ==
    /\ pc = "advanceFirst"
    /\ AdvanceTo("collect")
    /\ UNCHANGED <<tmpl, inits, pageIndex, resultIndex, results, onResultCallback, delivered,
                   origin, collects, collected, stepVars>>

\* the advance at the end of an iteration when paginationFirst is not set
Advance ==
    /\ pc = "advance"
    /\ AdvanceTo(LoopTop(tmpl, pageIndex))
    /\ UNCHANGED <<tmpl, inits, pageIndex, resultIndex, results, onResultCallback, delivered,
                   origin, collects, collected, stepVars>>

----------------------------------------------------------------------------
(* Tab templates the runs are drawn from *)

\* per-page step lists: a single record, one record per article, page context
\* and articles, nothing collected, items that stay empty, a list a failed
\* navigation aborts, page context with nested loops, and a link read from the
\* page after the articles
PerPageLists ==
    {<<GetPageTitle>>,
     <<ArticleTitles>>,
     <<GetPageTitle, Waiting(ArticleTitles)>>,
     <<ClickMissing>>,
     <<Clicks>>,
     <<Terminating(GoTo), GetPageTitle>>,
     <<GetPageTitle, QuietOuter>>,
     <<ArticleTitles, GetLink>>}

\* the lists whose page may hold no record at all
MayCollectNothing == {<<ArticleTitles>>, <<ClickMissing>>, <<Clicks>>}

Strategies == {"next", "scroll"}

PaginationConfigs ==
    { PaginationConfig(strategy, strategy = "next", maxPages, first, allFirst) :
        strategy \in Strategies, maxPages \in 0..MaxPagesBound,
        first \in BOOLEAN, allFirst \in BOOLEAN }
    \cup {PaginationConfig("next", FALSE, MaxPagesBound, FALSE, FALSE)}

InitStepLists == {<<>>, <<GoTo>>, <<Terminating(GoTo)>>}

\* templates: perPageSteps, or the legacy steps, or both (perPageSteps win);
\* initSteps with the single-record list; page context and articles without
\* pagination or on a single page; the nested loops without pagination; an
\* uncapped run only with a list whose pages may run dry
TabTemplates ==
    { t \in [initSteps : InitStepLists, perPageSteps : PerPageLists \cup {<<>>},
             steps : {<<>>, <<GetPageTitle>>, <<ArticleTitles>>},
             hasPagination : BOOLEAN,
             pagination : PaginationConfigs \cup {NoPagination},
             onResult : BOOLEAN] :
        /\ t.hasPagination <=> t.pagination # NoPagination
        /\ t.steps # <<>> =>
              /\ t.perPageSteps \in {<<>>, <<ClickMissing>>}
              /\ ~Uncapped(t)
              /\ ~t.pagination.paginationFirst
        /\ t.initSteps # <<>> => stepsForPage(t) = <<GetPageTitle>>
        /\ stepsForPage(t) \in {<<GetPageTitle, Waiting(ArticleTitles)>>, <<Clicks>>} =>
              t.pagination.maxPages = 1 \/ ~t.hasPagination
        /\ stepsForPage(t) = <<GetPageTitle, QuietOuter>> => ~t.hasPagination
        /\ stepsForPage(t) = <<ArticleTitles, GetLink>> => ~t.hasPagination
        /\ t.pagination.paginationFirst /\ t.pagination.paginateAllFirst =>
              stepsForPage(t) = <<ArticleTitles>>
        /\ Uncapped(t) => stepsForPage(t) \in MayCollectNothing }

StepsIdle ==
    /\ sx = [call |-> "none"]
    /\ out = Outcome(<<>>, FALSE, FALSE, <<>>)
    /\ phase = "idle"
    /\ PdfIdle

\* the locals of executeTab at its first statement
TabFresh ==
    /\ pc = "start"
    /\ pageIndex = 0
    /\ resultIndex = 0
    /\ results = <<>>
    /\ onResultCallback = FALSE
    /\ delivered = <<>>
    /\ origin = <<>>
    /\ pageNo = 0
    /\ inits = 0
    /\ collects = 0
    /\ advances = 0
    /\ lastAdv = "none"
    /\ afterFail = FALSE
    /\ collected = <<>>

\* executeTab at its first statement
TabStart == TabFresh /\ StepsIdle

Init == tmpl \in TabTemplates /\ TabStart

\* the templates of the runs followed to their end: every pagination
\* configuration, over pages that yield one record, none, or an error
FairTemplates ==
    { t \in TabTemplates :
        /\ t.initSteps = <<>>
        /\ t.steps = <<>>
        /\ t.perPageSteps \in {<<GetPageTitle>>, <<ClickMissing>>,
                                <<Terminating(GoTo), GetPageTitle>>} }

FairInit == tmpl \in FairTemplates /\ TabStart

Next ==
    \/ Start
    \/ PaginateAll
    \/ CollectAll
    \/ Collect
    \/ AdvanceFirst
    \/ Advance

Spec == Init /\ [][Next]_vars

\* executeTab called with an onResult that throws
ThrowingInit ==
    /\ tmpl \in {t \in TabTemplates : t.onResult}
    /\ TabFresh
    /\ sx = [call |-> "throwingCallback"]
    /\ out = Outcome(<<>>, FALSE, FALSE, <<>>)
    /\ phase = "idle"
    /\ PdfIdle

SpecThrowing == ThrowingInit /\ [][Next]_vars

\* every driver call returns, so executeTab always takes its next step
FairSpec == FairInit /\ [][Next]_vars /\ WF_vars(Next)

----------------------------------------------------------------------------
(* Specification of the default loop of executeTab as a whole: the runs of  *)
(* a template, each the sequence of its per-page passes and advances with  *)
(* what the driver answered, and the records returned.  The loop is run on  *)
(* a template and on the same template with paginationFirst set.           *)

\* most page iterations of a run that is followed
MaxLoopPages == MaxPagesBound

\* a pass of the per-page steps on page pg, an advance and how it went
Collected(pg, o) == [e |-> "collect", pg |-> pg, col |-> o.col, thrown |-> o.thrown,
                     calls |-> Emissions(o.obs)]
AdvanceMade(paginated) == [e |-> "advance", how |-> AdvanceResult(paginated)]

\* a run of the loop: how it ended ("done", "thrown", or "cut" when it is
\* followed no further), its events, the records, the calls of onResult
LoopRun(end, trace, a) ==
    [end |-> end, trace |-> trace, results |-> a.results, calls |-> a.calls]

RECURSIVE LoopIteration(_, _, _, _, _)
RECURSIVE LoopBody(_, _, _, _, _)
RECURSIVE LoopEnd(_, _, _, _, _)

\* while (true) { const collected = {};
\*   if (pagination && pagination.paginationFirst && pageIndex > 0) {
\*     const paginated = await runPagination(...); if (!paginated) break; }
LoopIteration(template, index, pg, a, trace) ==
    IF template.hasPagination /\ template.pagination.paginationFirst /\ index > 0
    THEN UNION { LET tr == Append(trace, AdvanceMade(paginated))
                 IN  IF paginated.thrown THEN {LoopRun("thrown", tr, a)}
                     ELSE IF ~paginated.ok THEN {LoopRun("done", tr, a)}
                     ELSE LoopBody(template, index, pg + 1, a, tr)
                 : paginated \in runPagination(template.pagination) }
    ELSE LoopBody(template, index, pg, a, trace)

\* await executeStepList(page, stepsForPage, collected) and the assembly of
\* the page's records; an uncapped run meets pages without records once it
\* holds MaxResults records
LoopBody(template, index, pg, a, trace) ==
    IF index >= MaxLoopPages THEN {LoopRun("cut", trace, a)}
    ELSE UNION { LET tr == Append(trace, Collected(pg, o))
                     page == AssemblePage(o.col, a.results, a.resultIndex,
                                          template.onResult, template.onResult, TRUE)
                     streamed == a.calls \o Emissions(o.obs)
                 IN  IF o.thrown
                     THEN {LoopRun("thrown", tr, Assembly(a.results, a.resultIndex, streamed))}
                     ELSE IF Uncapped(template) /\ Len(page.results) > MaxResults THEN {}
                     ELSE LoopEnd(template, index, pg,
                                  Assembly(page.results, page.resultIndex,
                                           streamed \o page.calls), tr)
                 : o \in executeStepList(stepsForPage(template), <<>>, pg, MaxTabMatch,
                                         template.onResult) }

\* LoopEnd making the trailing advance before it looks at maxPages
LoopEnd_AdvancesBeforeCap(template, index, pg, a, trace) ==
    IF ~template.hasPagination THEN {LoopRun("done", trace, a)}
    ELSE IF ~template.pagination.paginationFirst
    THEN UNION { LET tr == Append(trace, AdvanceMade(paginated))
                 IN  IF paginated.thrown THEN {LoopRun("thrown", tr, a)}
                     ELSE IF ~paginated.ok THEN {LoopRun("done", tr, a)}
                     ELSE IF MaxPagesReached(template.pagination, index + 1)
                     THEN {LoopRun("done", tr, a)}
                     ELSE LoopIteration(template, index + 1, pg + 1, a, tr)
                 : paginated \in runPagination(template.pagination) }
    ELSE IF MaxPagesReached(template.pagination, index + 1) THEN {LoopRun("done", trace, a)}
    ELSE LoopIteration(template, index + 1, pg, a, trace)

\* if (!pagination) break; pageIndex += 1;
\* if (pagination.maxPages && pageIndex >= pagination.maxPages) break;
\* if (!pagination.paginationFirst) {
\*   const paginated = await runPagination(...); if (!paginated) break; } }
LoopEnd(template, index, pg, a, trace) ==
    IF ~template.hasPagination THEN {LoopRun("done", trace, a)}
    ELSE IF MaxPagesReached(template.pagination, index + 1) THEN {LoopRun("done", trace, a)}
    ELSE IF ~template.pagination.paginationFirst
    THEN UNION { LET tr == Append(trace, AdvanceMade(paginated))
                 IN  IF paginated.thrown THEN {LoopRun("thrown", tr, a)}
                     ELSE IF ~paginated.ok THEN {LoopRun("done", tr, a)}
                     ELSE LoopIteration(template, index + 1, pg + 1, a, tr)
                 : paginated \in runPagination(template.pagination) }
    ELSE LoopIteration(template, index + 1, pg, a, trace)

\* let pageIndex = 0; let resultIndex = 0; while (true) ...
DefaultLoopRuns(template) == LoopIteration(template, 0, 0, Assembly(<<>>, 0, <<>>), <<>>)

WithPaginationFirst(template) == [template EXCEPT !.pagination.paginationFirst = TRUE]

\* the templates the loop is run on: paginated, the default loop,
\* paginationFirst not set
LoopTemplates ==
    { t \in TabTemplates : /\ t.hasPagination
                            /\ ~t.pagination.paginateAllFirst
                            /\ ~t.pagination.paginationFirst
                            /\ t.initSteps = <<>> }

LoopCalls == [call : {"defaultLoop"}, template : LoopTemplates]

LoopInit ==
    /\ TabIdle
    /\ PdfIdle
    /\ phase = "ready"
    /\ out = [plain |-> {}, first |-> {}]
    /\ sx \in LoopCalls

\* the loop is run on the template as it is
RunLoop ==
    /\ phase = "ready"
    /\ out' = [out EXCEPT !.plain = DefaultLoopRuns(sx.template)]
    /\ phase' = "plain"
    /\ UNCHANGED <<sx, tabVars, pdfVars>>

\* ... and on the template with paginationFirst set
RunLoopFirst ==
    /\ phase = "plain"
    /\ out' = [out EXCEPT !.first = DefaultLoopRuns(WithPaginationFirst(sx.template))]
    /\ phase' = "both"
    /\ UNCHANGED <<sx, tabVars, pdfVars>>

LoopNext == RunLoop \/ RunLoopFirst

SpecLoop == LoopInit /\ [][LoopNext]_vars

----------------------------------------------------------------------------
(* Specification of executeTab without a page cap: the runs of a template  *)
(* whose pagination has maxPages 0, and of the same template with maxPages *)
(* left out, and for contrast with maxPages set to a cap.  A run is        *)
(* followed for MaxLoopPages iterations.                                   *)

\* the one pass of the per-page steps after the paginateAllFirst loop
CollectOnce(template, pg, trace) ==
    { LET tr == Append(trace, Collected(pg, o))
          page == AssemblePage(o.col, <<>>, 0, template.onResult, template.onResult, FALSE)
      IN  IF o.thrown
          THEN LoopRun("thrown", tr, Assembly(<<>>, 0, Emissions(o.obs)))
          ELSE LoopRun("done", tr, Assembly(page.results, page.resultIndex,
                                            Emissions(o.obs) \o page.calls))
      : o \in executeStepList(stepsForPage(template), <<>>, pg, MaxTabMatch,
                              template.onResult) }

RECURSIVE AdvanceAll(_, _, _, _)

\* let pageIndex = 0; while (true) {
\*   if (pagination.maxPages && pageIndex >= pagination.maxPages) break;
\*   const paginated = await runPagination(...); if (!paginated) break;
\*   pageIndex++; }
AdvanceAll(template, index, pg, trace) ==
    IF MaxPagesReached(template.pagination, index) THEN CollectOnce(template, pg, trace)
    ELSE IF index >= MaxLoopPages THEN {LoopRun("cut", trace, Assembly(<<>>, 0, <<>>))}
    ELSE UNION { LET tr == Append(trace, AdvanceMade(paginated))
                 IN  IF paginated.thrown
                     THEN {LoopRun("thrown", tr, Assembly(<<>>, 0, <<>>))}
                     ELSE IF ~paginated.ok THEN CollectOnce(template, pg, tr)
                     ELSE AdvanceAll(template, index + 1, pg + 1, tr)
                 : paginated \in runPagination(template.pagination) }

\* if (pagination && pagination.paginateAllFirst) {...} else the default loop
TabRuns_(template) ==
    IF template.hasPagination /\ template.pagination.paginateAllFirst
    THEN AdvanceAll(template, 0, 0, <<>>)
    ELSE DefaultLoopRuns(template)

WithoutMaxPages(template) == [template EXCEPT !.pagination.maxPages = Undefined]
WithMaxPages(template, cap) == [template EXCEPT !.pagination.maxPages = cap]

\* the templates written with maxPages: 0
ZeroCapTemplates ==
    { t \in TabTemplates : /\ t.hasPagination
                           /\ t.pagination.maxPages = 0
                           /\ t.initSteps = <<>> }

MaxPagesCalls == [call : {"maxPages"}, template : ZeroCapTemplates, cap : 1..MaxPagesBound]

MaxPagesInit ==
    /\ TabIdle
    /\ PdfIdle
    /\ phase = "ready"
    /\ out = [zero |-> {}, absent |-> {}, capped |-> {}]
    /\ sx \in MaxPagesCalls

\* the template is run as written, with maxPages: 0
RunZero ==
    /\ phase = "ready"
    /\ out' = [out EXCEPT !.zero = TabRuns_(sx.template)]
    /\ phase' = "zero"
    /\ UNCHANGED <<sx, tabVars, pdfVars>>

\* ... and with maxPages left out
RunAbsent ==
    /\ phase = "zero"
    /\ out' = [out EXCEPT !.absent = TabRuns_(WithoutMaxPages(sx.template))]
    /\ phase' = "both"
    /\ UNCHANGED <<sx, tabVars, pdfVars>>

\* ... and with maxPages: cap
RunCapped ==
    /\ phase = "both"
    /\ out' = [out EXCEPT !.capped = TabRuns_(WithMaxPages(sx.template, sx.cap))]
    /\ phase' = "all"
    /\ UNCHANGED <<sx, tabVars, pdfVars>>

MaxPagesNext == RunZero \/ RunAbsent \/ RunCapped

SpecMaxPages == MaxPagesInit /\ [][MaxPagesNext]_vars

----------------------------------------------------------------------------
(* Specification of two calls of executeTab on one event loop: each is     *)
(* followed from await to await, and the two share the global              *)
(* onResultCallback.  The template of each holds one foreach and no         *)
(* pagination; run i reads page i - 1, so the two collect different texts.  *)

TabRuns == {1, 2}

\* no run has registered its callback
NoOwner == 0

\* a run of executeTab: where it is, the matches and the index of its foreach,
\* its root collector and its results
TabRun(at, count, idx, col, res) ==
    [pc |-> at, count |-> count, idx |-> idx, col |-> col, results |-> res]

\* a call received by the callback of a run: the run that made it, from where
Received(run, via, rec, idx) == [from |-> run, via |-> via, rec |-> rec, idx |-> idx]

TwoTabCalls ==
    [call : {"twoTabs"}, step : {ArticleTitles}, cb : [TabRuns -> BOOLEAN]]

TwoTabsInit ==
    /\ TabIdle
    /\ PdfIdle
    /\ phase = "tabs"
    /\ sx \in TwoTabCalls
    /\ out = [global |-> NoOwner,
              runs |-> [i \in TabRuns |-> TabRun("start", 0, 0, <<>>, <<>>)],
              received |-> [i \in TabRuns |-> <<>>]]

\* if (onResult) { global.onResultCallback = async (...) => onResult(...) }
\* else { global.onResultCallback = null }
TabRunStart(i) ==
    /\ phase = "tabs"
    /\ out.runs[i].pc = "start"
    /\ out' = [out EXCEPT !.global = IF sx.cb[i] THEN i ELSE NoOwner,
                          !.runs[i].pc = "foreach"]
    /\ UNCHANGED <<sx, phase, tabVars, pdfVars>>

\* const count = await locatorAll.count()
TabRunCount(i) ==
    /\ phase = "tabs"
    /\ out.runs[i].pc = "foreach"
    /\ \E count \in MatchCounts(<<>>, MaxTabMatch) :
          out' = [out EXCEPT !.runs[i].count = count,
                             !.runs[i].pc = IF count = 0 THEN "assemble" ELSE "items"]
    /\ UNCHANGED <<sx, phase, tabVars, pdfVars>>

\* one iteration of the foreach: the sub-steps in the item collector, the item
\* stored, and the emission to whatever the global callback is by then
TabRunItem(i) ==
    /\ phase = "tabs"
    /\ out.runs[i].pc = "items"
    /\ LET run == out.runs[i]
           registered == out.global # NoOwner
       IN  \E o \in ForeachSubSteps(sx.step, 1, SeedItemCollector(run.col), <<>>, run.idx,
                                     i - 1, MaxTabMatch, registered, <<>>) :
               LET emits == EmitItem(sx.step, <<>>, run.idx, o.col, registered)
               IN  out' = [out EXCEPT
                       !.runs[i].col = Put(run.col, ItemKey(run.idx), ObjVal(o.col)),
                       !.runs[i].idx = run.idx + 1,
                       !.runs[i].pc = IF run.idx + 1 >= run.count THEN "assemble" ELSE "items",
                       !.received = IF emits = <<>> THEN @
                                    ELSE [@ EXCEPT ![out.global] =
                                             Append(@, Received(i, "foreach", emits[1].rec,
                                                                emits[1].n))]]
    /\ UNCHANGED <<sx, phase, tabVars, pdfVars>>

\* the records of the page: onResult is called for an item only when no
\* global callback is registered
TabRunAssemble(i) ==
    /\ phase = "tabs"
    /\ out.runs[i].pc = "assemble"
    /\ LET a == AssemblePage(out.runs[i].col, <<>>, 0, sx.cb[i], out.global # NoOwner, TRUE)
       IN  out' = [out EXCEPT
               !.runs[i].results = a.results,
               !.runs[i].pc = "done",
               !.received[i] =
                   @ \o [n \in 1..Len(a.calls) |->
                            Received(i, "assembly", a.calls[n].rec, a.calls[n].idx)]]
    /\ UNCHANGED <<sx, phase, tabVars, pdfVars>>

TwoTabsNext ==
    \E i \in TabRuns :
        TabRunStart(i) \/ TabRunCount(i) \/ TabRunItem(i) \/ TabRunAssemble(i)

SpecTwoTabs == TwoTabsInit /\ [][TwoTabsNext]_vars

----------------------------------------------------------------------------
(* Specification of the public entry points (index.ts): runScraper and     *)
(* runScraperWithCallback launch a browser, run the templates one after    *)
(* another, each on a page of its own, and close what they opened.  What   *)
(* executeTab does with a template is the driver's answer here: it returns *)
(* some records or it throws.                                              *)

MaxTemplates == 2
MaxTabRecords == 2
TemplateNames == {"A", "B"}

\* the k-th record executeTab returned for the template at position pos
TabRecord(name, pos, k) == [tab |-> name, pos |-> pos, n |-> k]

TabRecords(name, pos, count) == [k \in 1..count |-> TabRecord(name, pos, k)]

ScraperCalls ==
    [call : {"runScraper", "runScraperWithCallback"},
     templates : UNION {[1..n -> TemplateNames] : n \in 0..MaxTemplates}]

ScraperInit ==
    /\ TabIdle
    /\ PdfIdle
    /\ phase = "call"
    /\ sx \in ScraperCalls
    /\ out = [browser |-> "none", open |-> {}, closed |-> {}, i |-> 0,
              allResults |-> <<>>, perTab |-> <<>>, pending |-> FALSE]

\* getBrowser and browser.newContext
Launch ==
    /\ phase = "call"
    /\ out' = [out EXCEPT !.browser = "open"]
    /\ phase' = "loop"
    /\ UNCHANGED <<sx, tabVars, pdfVars>>

\* for (const tmpl of templates): context.newPage()
NewPage ==
    /\ phase = "loop"
    /\ out.i < Len(sx.templates)
    /\ out' = [out EXCEPT !.i = @ + 1, !.open = @ \cup {out.i + 1}]
    /\ phase' = "tab"
    /\ UNCHANGED <<sx, tabVars, pdfVars>>

\* await executeTab(...) returns; runScraper pushes the records
TabReturns ==
    /\ phase = "tab"
    /\ \E count \in 0..MaxTabRecords :
          LET tabResults == TabRecords(sx.templates[out.i], out.i, count)
          IN  out' = [out EXCEPT
                        !.perTab = Append(@, tabResults),
                        !.allResults = IF sx.call = "runScraper"
                                       THEN @ \o tabResults ELSE @]
    /\ phase' = "finally"
    /\ UNCHANGED <<sx, tabVars, pdfVars>>

\* await executeTab(...) throws
TabThrows ==
    /\ phase = "tab"
    /\ out' = [out EXCEPT !.pending = TRUE]
    /\ phase' = "finally"
    /\ UNCHANGED <<sx, tabVars, pdfVars>>

\* finally { await page.close() }; a pending exception goes on outwards:
\* out of runScraper, or into the outer finally of runScraperWithCallback
ClosePage ==
    /\ phase = "finally"
    /\ out' = [out EXCEPT !.open = @ \ {out.i}, !.closed = @ \cup {out.i}]
    /\ phase' = IF ~out.pending THEN "loop"
                ELSE IF sx.call = "runScraper" THEN "rejected" ELSE "outerFinally"
    /\ UNCHANGED <<sx, tabVars, pdfVars>>

\* runScraper after the loop: await browser.close(); return allResults
CloseBrowser ==
    /\ phase = "loop"
    /\ out.i = Len(sx.templates)
    /\ sx.call = "runScraper"
    /\ out' = [out EXCEPT !.browser = "closed"]
    /\ phase' = "returned"
    /\ UNCHANGED <<sx, tabVars, pdfVars>>

\* runScraperWithCallback: the loop is left, normally or by an exception
LeaveLoop ==
    /\ phase = "loop"
    /\ out.i = Len(sx.templates)
    /\ sx.call = "runScraperWithCallback"
    /\ phase' = "outerFinally"
    /\ UNCHANGED <<sx, out, tabVars, pdfVars>>

\* runScraperWithCallback: finally { await browser.close() }
OuterFinally ==
    /\ phase = "outerFinally"
    /\ out' = [out EXCEPT !.browser = "closed"]
    /\ phase' = IF out.pending THEN "rejected" ELSE "returned"
    /\ UNCHANGED <<sx, tabVars, pdfVars>>

ScraperNext ==
    \/ Launch
    \/ NewPage
    \/ TabReturns
    \/ TabThrows
    \/ ClosePage
    \/ CloseBrowser
    \/ LeaveLoop
    \/ OuterFinally

SpecScraper == ScraperInit /\ [][ScraperNext]_vars

----------------------------------------------------------------------------
(* Properties of the pagination loop *)

Capped == tmpl.hasPagination /\ tmpl.pagination.maxPages >= 1

\* C1: with maxPages = M >= 1, whatever the strategy and the ordering, the
\* per-page step list is executed at most M times, also when every advance
\* succeeds.
C1_AtMostMaxPagesCollections ==
    Capped => collects <= tmpl.pagination.maxPages

\* a run of the largest cap that collected that many pages, every advance
\* having succeeded
C1_Witness ==
    /\ pc = "done"
    /\ tmpl.hasPagination
    /\ tmpl.pagination.strategy = "next"
    /\ ~tmpl.pagination.paginateAllFirst
    /\ tmpl.pagination.maxPages = MaxPagesBound
    /\ collects = MaxPagesBound
    /\ lastAdv = "ok"

NextStrategy == tmpl.hasPagination /\ tmpl.pagination.strategy = "next"

\* C2 as stated: with strategy=next, the step in which an advance fails ends
\* the run normally with the records collected so far, and nothing is
\* collected or advanced after it.
C2_Original ==
    [][NextStrategy /\ lastAdv' = "fail" =>
          pc' = "done" /\ ~afterFail' /\ results' = results]_vars

\* C2, amended: that holds when paginateAllFirst is not set; with
\* paginateAllFirst the failed advance ends the advance loop, no further
\* advance follows, and the per-page steps then run once.
C2_FailedAdvanceEndsLoop ==
    [][NextStrategy /\ lastAdv' = "fail" =>
          IF tmpl.pagination.paginateAllFirst
          THEN /\ pc' \in {"collectAll", "done", "thrown"}
               /\ advances' = advances \/ lastAdv # "fail"
               /\ collects' <= 1
               /\ pc' = "collectAll" => results' = results /\ collects' = 0
          ELSE pc' = "done" /\ ~afterFail' /\ results' = results]_vars

\* a default-loop run that an advance failure ended before the cap, holding a record
C2_Witness ==
    /\ pc = "done"
    /\ NextStrategy
    /\ ~tmpl.pagination.paginateAllFirst
    /\ lastAdv = "fail"
    /\ collects = 1
    /\ collects < tmpl.pagination.maxPages
    /\ Len(results) >= 1

\* C3 as stated: every run of executeTab eventually ends.
C3_Original == <>(pc \in Terminal)

\* C3, amended: a run ends when no pagination is configured or maxPages >= 1,
\* and after any failed advance; a run that ends normally ended through one of
\* the guards.  (Without maxPages, a strategy whose advance keeps succeeding
\* never ends.)
C3_EndsWhenGuarded ==
    /\ (~Uncapped(tmpl) \/ lastAdv = "fail") ~> (pc \in Terminal)
    /\ [](pc = "done" =>
             \/ ~tmpl.hasPagination
             \/ lastAdv = "fail"
             \/ MaxPagesReached(tmpl.pagination, pageIndex))

\* a scroll run that the cap ended
C3_Witness ==
    /\ pc = "done"
    /\ tmpl.hasPagination
    /\ tmpl.pagination.strategy = "scroll"
    /\ ~tmpl.pagination.paginateAllFirst
    /\ tmpl.pagination.maxPages = MaxPagesBound
    /\ collects = MaxPagesBound
    /\ advances = MaxPagesBound - 1

\* the collectors one pass over a template's per-page list (perPageSteps if
\* non-empty, else the legacy steps) can return
SinglePass(t) ==
    { o.col : o \in { x \in executeStepList(
                                IF Len(t.perPageSteps) > 0 THEN t.perPageSteps
                                ELSE t.steps,
                                <<>>, 0, MaxTabMatch, t.onResult) : ~x.thrown } }

\* ... for every template without pagination, as pairs <<template, collector>>
SinglePassResults ==
    UNION { { <<t, c>> : c \in SinglePass(t) } :
              t \in { x \in TabTemplates : ~x.hasPagination } }

\* C4: without pagination the per-page step list (perPageSteps if non-empty,
\* else the legacy steps) is executed exactly once, no advance is made, and
\* the run ends.
C4_NoPaginationRunsOnce ==
    ~tmpl.hasPagination =>
        /\ advances = 0
        /\ collects <= 1
        /\ pc \in {"start", "collect", "done", "thrown"}
        /\ collects = 1 => pc \in Terminal
        /\ pc = "done" =>
              /\ collects = 1
              /\ <<tmpl, collected>> \in SinglePassResults

\* a finished run without pagination that ran the legacy steps
C4_Witness ==
    /\ pc = "done"
    /\ ~tmpl.hasPagination
    /\ tmpl.perPageSteps = <<>>
    /\ tmpl.steps = <<GetPageTitle>>
    /\ collects = 1
    /\ Len(results) = 1

AllFirst == tmpl.hasPagination /\ tmpl.pagination.paginateAllFirst

\* C5: with paginateAllFirst the advances come first, until one fails or
\* maxPages of them have been made (at most maxPages when maxPages >= 1); only
\* then the per-page step list runs, exactly once, and nothing follows it.
C5_PaginateAllFirst ==
    AllFirst =>
        /\ tmpl.pagination.maxPages >= 1 => advances <= tmpl.pagination.maxPages
        /\ collects <= 1
        /\ collects = 1 => pc \in Terminal
        /\ pc = "done" => collects = 1
        /\ pc = "collectAll" \/ collects = 1 =>
              \/ lastAdv = "fail"
              \/ /\ tmpl.pagination.maxPages >= 1
                 /\ advances = tmpl.pagination.maxPages
                 /\ lastAdv = "ok"
        /\ pc = "paginateAll" => collects = 0 /\ lastAdv # "fail"

\* a paginateAllFirst run that made maxPages advances and then collected once
C5_Witness ==
    /\ pc = "done"
    /\ AllFirst
    /\ tmpl.pagination.maxPages = MaxPagesBound
    /\ advances = MaxPagesBound
    /\ lastAdv = "ok"
    /\ collects = 1
    /\ Len(results) >= 1

\* the records a root collector stands for: its non-empty items by ascending
\* index, or the collector itself
RECURSIVE C6_ItemsFrom(_, _)
C6_ItemsFrom(col, n) ==
    IF n > MaxTabMatch THEN <<>>
    ELSE LET k == <<"item_", ToString(n)>>
         IN  (IF Has(col, k) /\ Get(col, k).c # <<>> THEN <<Get(col, k)>> ELSE <<>>)
             \o C6_ItemsFrom(col, n + 1)

C6_HasItems(col) == \E i \in 1..Len(col) : col[i].k[1] = "item_"

C6_Records(col) ==
    IF C6_HasItems(col) THEN C6_ItemsFrom(col, 0)
    ELSE IF col # <<>> THEN <<[t |-> "obj", s |-> <<>>, c |-> col]>>
    ELSE <<>>

\* a page iteration that was not left by an error
C6_PageIteration == pc \in {"collect", "collectAll"} /\ pc' # "thrown"

C6_RecordsAppended ==
    /\ results' = results \o C6_Records(collected')
    /\ (/\ C6_HasItems(collected')
        /\ \A i \in 1..Len(collected') : collected'[i].v.c # <<>>)
       => Len(results') = Len(results) + Len(collected')

\* C6: a page iteration appends to the results one record per non-empty item
\* of the root collector, in ascending match order, when the collector holds
\* item_* keys; otherwise the whole collector as one record when it is not
\* empty; so N non-empty items give N records.
C6_PageAssembly ==
    [][C6_PageIteration => C6_RecordsAppended]_vars

\* a page whose two items became two distinct records, in match order
C6_Witness ==
    /\ pc = "done"
    /\ collects = 1
    /\ stepsForPage(tmpl) = <<ArticleTitles>>
    /\ Len(results) = 2
    /\ Has(collected, <<"item_", "0">>) /\ results[1] = Get(collected, <<"item_", "0">>)
    /\ Has(collected, <<"item_", "1">>) /\ results[2] = Get(collected, <<"item_", "1">>)
    /\ results[1] # results[2]

----------------------------------------------------------------------------
(* Properties of the step interpreter *)

Ran(call) == phase = "ran" /\ sx.call = call

\* the list position of the step an event of a list run belongs to
StepAt(obs, p) == Cardinality({q \in 1..p : obs[q].e = "step"})

\* the number of elements a foreach run matched
Matched(obs) ==
    IF \E p \in 1..Len(obs) : obs[p].e = "count"
    THEN obs[CHOOSE p \in 1..Len(obs) : obs[p].e = "count"].n
    ELSE 0

Position(col, k) == CHOOSE i \in 1..Len(col) : col[i].k = k

\* the value a data sub-step leaves for the element `idx`: its text, or null
C7_ValueOf(item, sub, idx) ==
    \E i \in 1..Len(item) :
        /\ item[i].k[1] = (IF sub.key # <<>> THEN sub.key ELSE sub.id)[1]
        /\ \/ item[i].v = Null
           \/ item[i].v = StrVal(sub.object \o <<"@", "0">>
                                 \o [j \in 1..Len(sx.scope) |-> ToString(sx.scope[j])]
                                 \o <<ToString(idx)>>)

\* C7: a foreach over N matches that completes leaves the parent collector
\* with item_0 .. item_(N-1), in that order, item_k holding what the sub-steps
\* read from match k (null where one failed softly), and adds no other item.
C7_OneItemPerMatch ==
    Ran("executeStep") /\ sx.steps[1].action = "foreach" /\ ~out.thrown =>
        LET n == Matched(out.obs)
            step == sx.steps[1]
        IN  /\ \A k \in 0..(n - 1) :
                  /\ Has(out.col, <<"item_", ToString(k)>>)
                  /\ Get(out.col, <<"item_", ToString(k)>>).t = "obj"
                  /\ \A m \in 1..Len(step.subSteps) :
                        step.subSteps[m].action = "data" =>
                            C7_ValueOf(Get(out.col, <<"item_", ToString(k)>>).c,
                                       step.subSteps[m], k)
            /\ \A k, l \in 0..(n - 1) :
                  k < l => Position(out.col, <<"item_", ToString(k)>>)
                             < Position(out.col, <<"item_", ToString(l)>>)
            /\ \A i \in 1..Len(out.col) :
                  out.col[i].k[1] = "item_" =>
                      \/ \E k \in 0..(n - 1) : out.col[i].k = <<"item_", ToString(k)>>
                      \/ \E j \in 1..Len(sx.col) : sx.col[j] = out.col[i]
            /\ \A i \in 1..Len(sx.col) :
                  sx.col[i].k[1] # "item_" =>
                      \E j \in 1..Len(out.col) : out.col[j] = sx.col[i]

\* two matches, with a sub-step failing softly in each of the two iterations
C7_Witness ==
    /\ Ran("executeStep") /\ sx.steps = <<Articles>> /\ ~out.thrown
    /\ sx.col = <<>>
    /\ Matched(out.obs) = 2
    /\ Keys(out.col) = << <<"item_", "0">>, <<"item_", "1">> >>
    /\ Get(Get(out.col, <<"item_", "0">>).c, <<"title">>) = Null
    /\ Get(Get(out.col, <<"item_", "0">>).c, <<"link">>) = StrVal(<<"a", "@", "0", "0">>)
    /\ Get(Get(out.col, <<"item_", "1">>).c, <<"title">>) = StrVal(<<"h2", "@", "0", "1">>)
    /\ Get(Get(out.col, <<"item_", "1">>).c, <<"link">>) = Null

\* the item records of a collector that a run produced (not those it started with)
Produced(col, start) ==
    { col[i].v.c : i \in { j \in 1..Len(col) :
                             /\ col[j].k[1] = "item_"
                             /\ \A m \in 1..Len(start) : start[m] # col[j] } }

\* the keys the data sub-steps of a foreach store under
SubStepKeys(step) ==
    { (IF step.subSteps[m].key # <<>> THEN step.subSteps[m].key ELSE step.subSteps[m].id)
        : m \in { q \in 1..Len(step.subSteps) : step.subSteps[q].action = "data" } }

\* every non-item key of `ctx` is in `rec`, with the same value unless its key is in `writes`
Preserves(ctx, rec, writes) ==
    \A i \in 1..Len(ctx) :
        ctx[i].k[1] # "item_" =>
            \E j \in 1..Len(rec) :
                /\ rec[j].k = ctx[i].k
                /\ rec[j].v = ctx[i].v \/ ctx[i].k \in writes

\* the same of every record of the flattened item
PreservedFlat(ctx, item, writes) ==
    LET flat == flattenNestedForeachResults(item)
    IN  IF flat.t = "arr"
        THEN \A i \in 1..Len(flat.c) : Preserves(ctx, flat.c[i].v.c, writes)
        ELSE Preserves(ctx, flat.c, writes)

\* the step of a nested foreach that is itself a foreach
InnerOf(step) ==
    step.subSteps[CHOOSE m \in 1..Len(step.subSteps) : step.subSteps[m].action = "foreach"]

\* the ancestor context is kept by the items of a foreach run, by the items
\* of the foreach nested in it, and by the flattened items, except under the
\* keys in `writes` (outer loop) and `innerWrites` (inner loop)
ContextKept(writes, innerWrites) ==
    \A item \in Produced(out.col, sx.col) :
        /\ Preserves(sx.col, item, writes)
        /\ \A inner \in Produced(item, <<>>) :
              /\ Preserves(sx.col, inner, writes \cup innerWrites)
              /\ Preserves(item, inner, innerWrites)
        /\ PreservedFlat(sx.col, item, writes \cup innerWrites)
        /\ PreservedFlat(item, item, innerWrites)

C9_Key(step) ==
    IF step.key # <<>> THEN step.key ELSE IF step.id # <<>> THEN step.id ELSE <<"data">>

SoftDataFailure(ev) == ev.e \in {"zero", "extractFailed"}

C10_RethrowsIffTerminateOnError ==
    Ran("executeStepList") =>
        /\ \A p \in 1..Len(out.obs) :
              out.obs[p].e = "threw" =>
                  LET n == StepAt(out.obs, p)
                  IN  IF sx.steps[n].terminateonerror
                      THEN out.thrown /\ p = Len(out.obs)
                      ELSE /\ n < Len(sx.steps) =>
                                 /\ p < Len(out.obs)
                                 /\ out.obs[p + 1].e = "step"
                                 /\ out.obs[p + 1].id = sx.steps[n + 1].id
                           /\ n = Len(sx.steps) => ~out.thrown /\ p = Len(out.obs)
        /\ out.thrown =>
              /\ out.obs # <<>>
              /\ out.obs[Len(out.obs)].e = "threw"
        /\ ~out.thrown => StepAt(out.obs, Len(out.obs)) = Len(sx.steps)

\* a list whose first step's error was swallowed and whose second step's
\* error, the step having terminateonerror, ended the list before the third
C10_Witness ==
    /\ Ran("executeStepList")
    /\ sx.steps = <<GoTo, Terminating(GoNowhere), GetTitle>>
    /\ sx.col = <<>>
    /\ out.thrown
    /\ Len(SelectSeq(out.obs, LAMBDA ev : ev.e = "threw")) = 2
    /\ StepAt(out.obs, Len(out.obs)) = 2
    /\ out.col = <<>>

\* the step of the call that the event at p belongs to
StepOf(p) == sx.steps[StepAt(out.obs, p)]

\* the step that the event at p belongs to threw
ThrewAt(p) ==
    \E q \in p..Len(out.obs) :
        out.obs[q].e = "threw" /\ StepAt(out.obs, q) = StepAt(out.obs, p)

\* the caught error of a sub-step of the foreach at the top of the call
CaughtSubStep(p) == out.obs[p].e = "subThrew" /\ Len(out.obs[p].scope) = 1

\* the foreach the event at p belongs to was left at once by the error
C11_Aborted(p) ==
    /\ p < Len(out.obs)
    /\ out.obs[p + 1].e = "threw"
    /\ out.obs[p + 1].id = StepOf(p).id
    /\ LET k == <<"item_", ToString(out.obs[p].scope[1])>>
       IN  Has(out.col, k) => Has(sx.col, k) /\ Get(out.col, k) = Get(sx.col, k)

\* the error that left a foreach leaves the list only with terminateonerror on the foreach
C11_ListAfter(p) ==
    sx.call = "executeStepList" =>
        IF StepOf(p).terminateonerror
        THEN out.thrown /\ p + 1 = Len(out.obs)
        ELSE StepAt(out.obs, p) < Len(sx.steps) =>
                 /\ p + 2 <= Len(out.obs)
                 /\ out.obs[p + 2].e = "step"
                 /\ out.obs[p + 2].id = sx.steps[StepAt(out.obs, p) + 1].id

\* the foreach went on: unless it was left later, every match has its item, and
\* every item the keys of the data sub-steps
C11_WentOn(p) ==
    /\ p < Len(out.obs) => out.obs[p + 1].e # "threw"
    /\ ~ThrewAt(p) =>
          \E q \in 1..p :
              /\ out.obs[q].e = "count" /\ StepAt(out.obs, q) = StepAt(out.obs, p)
              /\ \A idx \in 0..(out.obs[q].n - 1) :
                    /\ Has(out.col, <<"item_", ToString(idx)>>)
                    /\ \A m \in 1..Len(StepOf(p).subSteps) :
                          StepOf(p).subSteps[m].action = "data" =>
                              \E i \in 1..Len(Get(out.col, <<"item_", ToString(idx)>>).c) :
                                  Get(out.col, <<"item_", ToString(idx)>>).c[i].k[1]
                                      = StepOf(p).subSteps[m].key[1]

\* C11: a sub-step error leaves the foreach only if the sub-step has
\* terminateonerror, otherwise the remaining sub-steps and iterations run; the
\* error that left the foreach leaves the step list only if the foreach has
\* terminateonerror too, otherwise the steps after the foreach run.
C11_ForeachErrorScope ==
    phase = "ran" =>
        \A p \in 1..Len(out.obs) :
            /\ CaughtSubStep(p) =>
                  IF StepOf(p).subSteps[out.obs[p].n].terminateonerror
                  THEN C11_Aborted(p) /\ C11_ListAfter(p)
                  ELSE C11_WentOn(p)
            /\ (out.obs[p].e = "threw" /\ StepOf(p).action = "foreach") =>
                  /\ p > 1
                  /\ \/ out.obs[p - 1].e \in {"scrollFailed", "config"}
                     \/ /\ CaughtSubStep(p - 1)
                        /\ StepOf(p).subSteps[out.obs[p - 1].n].terminateonerror

\* a terminateonerror sub-step failed at the second match: the first item stays,
\* the foreach is left, and the step after it ran
C11_Witness ==
    /\ Ran("executeStepList")
    /\ sx.steps = <<GetPageTitle, Fragile, GetLink>>
    /\ sx.col = <<>>
    /\ ~out.thrown
    /\ \E p \in 1..Len(out.obs) : CaughtSubStep(p) /\ out.obs[p].scope = <<1>>
    /\ Keys(out.col) = << <<"page_title">>, <<"item_", "0">>, <<"link">> >>

----------------------------------------------------------------------------
(* Properties of the structural checks, the file captures and open *)

\* a step that lacks what its action requires
StructurallyInvalid(step) ==
    \/ step.action = "navigate" /\ step.value = <<>>
    \/ step.action \in {"foreach", "open"} /\ (step.object = <<>> \/ step.subSteps = <<>>)
    \/ /\ step.action \in {"eventBaseDownload", "downloadFile", "downloadPDF",
                            "savePDF", "printToPDF"}
       /\ step.value = <<>>

\* the events that are neither a driver call nor a collector write
NoDriverEvents == {"step", "config", "threw"}

\* C12: a structurally invalid step (navigate without value; foreach or open
\* without selector or with empty subSteps; a file capture without value)
\* makes executeStep throw before any driver call and before any write to the
\* collector: called on its own it throws, leaves the collector as it was and
\* records no driver event; in a list its error follows its start at once.
C12_InvalidStepThrowsFirst ==
    phase = "ran" =>
        /\ (sx.call = "executeStep" /\ StructurallyInvalid(sx.steps[1])) =>
              /\ out.thrown
              /\ out.col = sx.col
              /\ \A p \in 1..Len(out.obs) : out.obs[p].e \in NoDriverEvents
        /\ \A p \in 1..Len(out.obs) :
              (out.obs[p].e = "step" /\ StructurallyInvalid(StepOf(p))) =>
                  /\ p + 2 <= Len(out.obs)
                  /\ out.obs[p + 1].e = "config"
                  /\ out.obs[p + 2].e = "threw"
                  /\ out.obs[p + 2].id = StepOf(p).id

\* a savePDF step without value, called with a collector that holds keys: it
\* threw and the collector has no key of the step
C12_Witness ==
    /\ Ran("executeStep")
    /\ sx.steps[1] = WithoutValue(SavePdf)
    /\ sx.col # <<>>
    /\ out.thrown
    /\ ~Has(out.col, <<"pdf">>)

----------------------------------------------------------------------------
(* Properties of the delivery to the callback *)

\* a is a prefix of b
IsPrefix(a, b) == Len(a) <= Len(b) /\ SubSeq(b, 1, Len(a)) = a

\* the calls p and q were made in the same run of a step list
SameRun(p, q) == origin[p].run = origin[q].run

\* no item a foreach has streamed is delivered again by the page assembly, on
\* its own or within the whole collector
C13_NoAssemblyRedelivery ==
    \A p, q \in 1..Len(origin) :
        ~ /\ origin[p].via = "foreach"
          /\ origin[q].via = "assembly"
          /\ SameRun(p, q)
          /\ IsPrefix(origin[q].path, origin[p].path)

\* no item an inner foreach has streamed is delivered again within the array
\* that the enclosing foreach streams for its own element
C13_NoNestedRedelivery ==
    \A p, q \in 1..Len(origin) :
        ~ /\ origin[p].via = "foreach"
          /\ origin[q].via = "foreach"
          /\ SameRun(p, q)
          /\ p < q
          /\ IsPrefix(origin[q].path, origin[p].path)
          /\ Len(origin[q].path) < Len(origin[p].path)
          /\ delivered[q].rec.t = "arr"
          /\ \E n \in 1..Len(delivered[q].rec.c) :
                delivered[q].rec.c[n].v = delivered[p].rec

\* a step list with one foreach, which holds no further foreach
SingleLevel(steps) ==
    /\ Cardinality({n \in 1..Len(steps) : steps[n].action = "foreach"}) = 1
    /\ \A n \in 1..Len(steps) : ~IsNested(steps[n])

\* the non-empty items of a collector
NonEmptyItems(col) == SelectSeq(col, LAMBDA e : IsItemEntry(e) /\ NonEmpty(e.v))

\* a single page with a single-level foreach: as many calls as non-empty items
C13_SingleLevelExact ==
    ( /\ pc = "done"
      /\ tmpl.onResult
      /\ ~tmpl.hasPagination
      /\ tmpl.initSteps = <<>>
      /\ SingleLevel(stepsForPage(tmpl))
      /\ NonEmptyItems(collected) # <<>> ) =>
        Len(delivered) = Len(NonEmptyItems(collected))

\* C13: with a result callback registered, every record of an executeTab run
\* is delivered at most once: not by the foreach and again by the page
\* assembly, and not by an inner foreach and again within the emission of the
\* outer foreach; a single-level foreach over N non-empty items makes exactly
\* N calls.
C13_DeliveredAtMostOnce ==
    tmpl.onResult =>
        /\ C13_NoAssemblyRedelivery
        /\ C13_NoNestedRedelivery
        /\ C13_SingleLevelExact

\* the records the callback received, in call order
Streamed == [n \in 1..Len(delivered) |-> delivered[n].rec]

\* C14: batch and streaming deliver the same sequence: when executeTab returns,
\* the records passed to the callback, in call order, are the records it
\* returns, record for record.
C14_BatchEqualsStreaming ==
    (pc = "done" /\ tmpl.onResult) => Streamed = results

\* C15: the index passed to the callback is a running index: over one
\* executeTab run the indices are 0, 1, 2, ... in call order, across foreach
\* items and across pages.
C15_RunningIndex ==
    tmpl.onResult => \A n \in 1..Len(delivered) : delivered[n].idx = n - 1

----------------------------------------------------------------------------
(* Properties of the file captures *)

\* step.key, else step.id, else "file"
C16_Key(step) ==
    IF step.key # <<>> THEN step.key ELSE IF step.id # <<>> THEN step.id ELSE <<"file">>

\* a file-capture step was called on its own
FileCall == Ran("executeStep") /\ sx.steps[1].action \in FileActions

\* no error left the call and the key holds the path of the written file, or
\* null when nothing was written; the other keys are as they were
C16_Captured ==
    /\ ~out.thrown
    /\ Has(out.col, C16_Key(sx.steps[1]))
    /\ \A p \in 1..Len(out.obs) :
          /\ out.obs[p].e = "saved" =>
                Get(out.col, C16_Key(sx.steps[1])) = StrVal(ResolvedPath(sx.steps[1], sx.col))
          /\ out.obs[p].e = "saveFailed" => Get(out.col, C16_Key(sx.steps[1])) = Null
    /\ \E p \in 1..Len(out.obs) : out.obs[p].e \in {"saved", "saveFailed"}
    /\ \A n \in 1..Len(sx.col) :
          sx.col[n].k # C16_Key(sx.steps[1]) =>
              Has(out.col, sx.col[n].k) /\ Get(out.col, sx.col[n].k) = sx.col[n].v

\* downloadFile and downloadPDF have their object locator
C16_HasLocator ==
    sx.steps[1].action \in {"downloadFile", "downloadPDF"} => sx.steps[1].object # <<>>

----------------------------------------------------------------------------
(* Properties of open *)

\* the child page opened at p is closed at q, within the same step of the call
ClosedAt(p, q) ==
    /\ q > p
    /\ out.obs[q].e = "pageClosed"
    /\ out.obs[q].id = out.obs[p].id
    /\ out.obs[q].scope = out.obs[p].scope
    /\ StepAt(out.obs, q) = StepAt(out.obs, p)

\* every child page an open step has created is closed when the step finishes
C17_EveryChildClosed ==
    phase = "ran" =>
        \A p \in 1..Len(out.obs) :
            out.obs[p].e = "pageOpened" => \E q \in 1..Len(out.obs) : ClosedAt(p, q)

\* a child page is closed only after its collector was merged into the parent,
\* and an open step called on its own then returns the merged collector
C17_MergedBeforeClosed ==
    phase = "ran" =>
        \A q \in 1..Len(out.obs) :
            out.obs[q].e = "pageClosed" =>
                /\ q > 1
                /\ out.obs[q - 1].e = "merged"
                /\ out.obs[q - 1].id = out.obs[q].id
                /\ (sx.call = "executeStep" /\ sx.steps[1].action = "open") =>
                      out.col = out.obs[q - 1].rec.c

\* C17: every child page created by an open step is closed by the time the
\* open step finishes, on every path (sub-steps completed, a terminateonerror
\* sub-step threw, the child navigation failed); on normal completion the
\* child collector has been merged into the parent before the page is closed.
C17_OpenClosesChild == C17_EveryChildClosed /\ C17_MergedBeforeClosed

----------------------------------------------------------------------------
(* Properties of scroll pagination *)

\* a tab run that scrolls through a given number of pages
ScrollCapped ==
    /\ tmpl.hasPagination
    /\ tmpl.pagination.strategy = "scroll"
    /\ tmpl.pagination.maxPages >= 1
    /\ ~tmpl.pagination.paginateAllFirst

\* a step list that leaves a non-empty collector without item keys on every page
OneRecordPerPage(steps) ==
    /\ \E n \in 1..Len(steps) : steps[n].action = "data"
    /\ \A n \in 1..Len(steps) : steps[n].action \notin {"foreach", "open"}

\* C18: with strategy scroll and maxPages = M >= 1, without paginateAllFirst,
\* an executeTab that returns has executed the per-page step list exactly M
\* times and made exactly M - 1 scroll advances, none of which failed; when
\* every page yields a non-empty collector without item keys it returns
\* exactly M records.
C18_ScrollRunsMaxPages ==
    (pc = "done" /\ ScrollCapped) =>
        /\ collects = tmpl.pagination.maxPages
        /\ advances = tmpl.pagination.maxPages - 1
        /\ lastAdv \in {"none", "ok"}
        /\ OneRecordPerPage(stepsForPage(tmpl)) => Len(results) = tmpl.pagination.maxPages

\* a scroll run over the largest number of pages has returned one record a page
C18_Witness ==
    /\ pc = "done"
    /\ ScrollCapped
    /\ tmpl.pagination.maxPages = MaxPagesBound
    /\ stepsForPage(tmpl) = <<GetPageTitle>>
    /\ collects = MaxPagesBound
    /\ advances = MaxPagesBound - 1
    /\ Len(results) = MaxPagesBound

----------------------------------------------------------------------------
(* Properties of cloneStepWithIndex *)

\* what a token becomes when {{t}} is replaced with n and {{t_plus1}} with n + 1
C19_Token(token, n, t) ==
    IF token \in {"{{" \o t \o "}}", "{{ " \o t \o " }}"} THEN ToString(n)
    ELSE IF token \in {"{{" \o t \o "_plus1}}", "{{ " \o t \o "_plus1 }}"} THEN ToString(n + 1)
    ELSE token

C19_Text(text, n, t) == [p \in 1..Len(text) |-> C19_Token(text[p], n, t)]

\* `clone` is `step` with its own tokens replaced in object, value and key, at
\* every depth, and nothing else changed
RECURSIVE C19_Agrees(_, _, _, _)
C19_Agrees(step, clone, n, t) ==
    /\ clone.object = C19_Text(step.object, n, t)
    /\ clone.value = C19_Text(step.value, n, t)
    /\ clone.key = C19_Text(step.key, n, t)
    /\ [clone EXCEPT !.object = <<>>, !.value = <<>>, !.key = <<>>, !.subSteps = <<>>]
         = [step EXCEPT !.object = <<>>, !.value = <<>>, !.key = <<>>, !.subSteps = <<>>]
    /\ Len(clone.subSteps) = Len(step.subSteps)
    /\ \A m \in 1..Len(step.subSteps) :
          C19_Agrees(step.subSteps[m], clone.subSteps[m], n, t)

\* C19: cloneStepWithIndex(step, n, t) replaces every {{t}} with n and every
\* {{t_plus1}} with n + 1 in object, value and key of the step and of all
\* nested subSteps and leaves every token of another name as it is, in a
\* first clone and in a later clone of its result.
C19_CloneReplacesOwnTokens ==
    phase \in {"cloned", "recloned"} => C19_Agrees(out.of, out.step, out.idx, out.char)

----------------------------------------------------------------------------
(* Properties of click *)

\* the click of the step that the event at p belongs to threw
ClickFailedAt(p) == out.obs[p].e = "clickFailed" /\ StepOf(p).action = "click"

\* C20: a click step whose click throws has the failure swallowed, and the
\* list goes on, unless the step has terminateonerror: then the failure leaves
\* executeStep and ends the enclosing step list.
C20_ClickFailurePropagates ==
    phase = "ran" =>
        \A p \in 1..Len(out.obs) :
            ClickFailedAt(p) =>
                IF StepOf(p).terminateonerror
                THEN /\ ThrewAt(p)
                     /\ out.thrown
                     /\ StepAt(out.obs, Len(out.obs)) = StepAt(out.obs, p)
                ELSE /\ ~ThrewAt(p)
                     /\ StepAt(out.obs, p) < Len(sx.steps) =>
                           StepAt(out.obs, Len(out.obs)) > StepAt(out.obs, p)

----------------------------------------------------------------------------
(* Properties of the post-wait *)

\* the n-th step of the call was started and no error left it
Completed(n) ==
    /\ \E p \in 1..Len(out.obs) : out.obs[p].e = "step" /\ StepAt(out.obs, p) = n
    /\ ~\E p \in 1..Len(out.obs) : out.obs[p].e = "threw" /\ StepAt(out.obs, p) = n

\* the post-waits the n-th step of the call performed
PostWaits(n) ==
    { p \in 1..Len(out.obs) :
        /\ out.obs[p].e = "wait"
        /\ StepAt(out.obs, p) = n
        /\ out.obs[p].id = sx.steps[n].id
        /\ out.obs[p].n = sx.steps[n].wait }

\* the selector of the n-th step of the call matched no element
MatchedZero(n) ==
    \E p \in 1..Len(out.obs) : out.obs[p].e = "zero" /\ StepAt(out.obs, p) = n

\* a step that completed without a zero match performs its post-wait once, and
\* one whose selector matched nothing performs none
C21_WaitUnlessZeroMatch ==
    phase = "ran" =>
        \A n \in 1..Len(sx.steps) :
            (sx.steps[n].wait > 0 /\ Completed(n)) =>
                Cardinality(PostWaits(n)) = (IF MatchedZero(n) THEN 0 ELSE 1)

\* C21: every step with wait > 0 that completes, on success or on contained
\* failure, performs its post-wait exactly once, also a click, data or open
\* step whose selector matched zero elements.
C21_PostWaitOnCompletion ==
    phase = "ran" =>
        \A n \in 1..Len(sx.steps) :
            (sx.steps[n].wait > 0 /\ Completed(n)) => Cardinality(PostWaits(n)) = 1

----------------------------------------------------------------------------
(* Properties of a failed child navigation *)

\* the load of the child page of the open step that the event at p belongs to failed
ChildLoadFailedAt(p) == out.obs[p].e = "childLoadFailed" /\ StepOf(p).action = "open"

\* what only a sub-step of open, or the end of an open that ran them, leaves behind
OpenProgress == {"openSub", "openSubThrew", "merged", "pageClosed"}

\* no data sub-step of the open step has written its key
NothingMerged(step) ==
    \A m \in 1..Len(step.subSteps) :
        step.subSteps[m].action = "data" =>
            LET k == IF step.subSteps[m].key # <<>> THEN step.subSteps[m].key
                     ELSE step.subSteps[m].id
            IN  Has(out.col, k) => Has(sx.col, k) /\ Get(out.col, k) = Get(sx.col, k)

\* C22: when the navigation of the child page fails inside an open step, no
\* sub-step of the open runs, the parent collector is left as it was, and the
\* error leaves executeStep if and only if the open step has terminateonerror.
C22_ChildNavigationFailure ==
    phase = "ran" =>
        \A p \in 1..Len(out.obs) :
            ChildLoadFailedAt(p) =>
                /\ ThrewAt(p) <=> StepOf(p).terminateonerror
                /\ \A q \in 1..Len(out.obs) :
                      StepAt(out.obs, q) = StepAt(out.obs, p) => out.obs[q].e \notin OpenProgress
                /\ NothingMerged(StepOf(p))
                /\ sx.call = "executeStep" =>
                      /\ out.col = sx.col
                      /\ out.thrown <=> sx.steps[1].terminateonerror

\* an open step with terminateonerror, called with a collector that holds
\* context: the child page was created, its navigation failed, the error left
\* the step and the collector is as it was
C22_Witness ==
    /\ Ran("executeStep")
    /\ sx.steps = <<Terminating(OpenDetail)>>
    /\ sx.col = <<[k |-> <<"section">>, v |-> StrVal(<<"News">>)]>>
    /\ \E p \in 2..Len(out.obs) :
          ChildLoadFailedAt(p) /\ out.obs[p - 1].e = "pageOpened"
    /\ out.thrown
    /\ out.col = sx.col

----------------------------------------------------------------------------
(* Properties of savePDF *)

\* the savePDF step has finished: it threw at its check, or its finally is over
PdfFinished == pdfPc \in {"done", "thrown"}

\* the stages that wrote the target file, in order
Writers ==
    LET wrote == SelectSeq(pdfLog, LAMBDA ev : ev.e = "wrote")
    IN  [n \in 1..Len(wrote) |-> wrote[n].by]

\* C23: after a savePDF step has finished, on any path (saved, nothing saved,
\* an error inside the step), the route handler the step registered is no
\* longer registered on the page; it is registered only between page.route and
\* the unroute of the finally.
C23_NoRouteLeft ==
    /\ PdfFinished => ~routed
    /\ routed => pdfPc \in {"direct", "fileWait", "reload", "saveAs", "body",
                            "lateWait", "finally"}

\* a step that finished after an error reached its outer catch: the handler had
\* been invoked, nothing was saved, and the route is gone
C23_Witness ==
    /\ pdfPc = "done"
    /\ handlers[1] = "returned"
    /\ interceptedData
    /\ \E n \in 1..Len(pdfLog) : pdfLog[n].e = "outerCatch"
    /\ savedPath = Null
    /\ Get(out.col, <<"pdf">>) = Null
    /\ ~routed

\* without an invocation of the route handler the stages of the main flow
\* write the file at most once
C24_MainFlowWritesOnce ==
    (\A i \in 1..MaxRequests : handlers[i] = "none") => Len(Writers) <= 1

\* C24: within one savePDF step the first successful stage wins: once a stage
\* (direct fetch, route handler, download event, response body) has written the
\* target file, no other stage writes it again, for every interleaving of the
\* route handler with the main flow.
C24_FirstSuccessWins ==
    pdfPc # "done" => Len(Writers) <= 1

----------------------------------------------------------------------------
(* Properties of downloadFile / downloadPDF *)

\* the step that the event at p belongs to is a download step
DownloadAt(p) == StepOf(p).action \in {"downloadFile", "downloadPDF"}

\* the event at p, of a download step, is e
Download(p, e) == out.obs[p].e = e /\ DownloadAt(p)

\* the fetch of the href comes first; a tab is opened only when the link has
\* no usable href, and its URL is fetched next; nothing is tried after a fetch
\* that succeeded
C25_FetchesInOrder ==
    phase = "ran" =>
        \A p \in 1..Len(out.obs) :
            /\ (Download(p, "href") \/ Download(p, "noHref")) => out.obs[p - 1].e = "step"
            /\ (Download(p, "tabOpened") \/ Download(p, "tabMissing")) =>
                  out.obs[p - 1].e = "noHref"
            /\ Download(p, "fetched") =>
                  /\ out.obs[p - 1].e \in {"href", "tabOpened"}
                  /\ out.obs[p + 1].e = "saved"
            /\ Download(p, "saved") => out.obs[p - 1].e = "fetched"

\* when the fetches have failed, the download event is tried as the last resort
C25_EventAsLastResort ==
    phase = "ran" =>
        \A p \in 1..Len(out.obs) :
            Download(p, "fetchFailed") =>
                /\ p < Len(out.obs)
                /\ out.obs[p + 1].e = "downloadEvent"

\* C25: a downloadFile/downloadPDF step tries its strategies in order and
\* stops at the first success: (a) the fetch of the element's href, (b) without
\* a usable href the link opened in a new tab and that URL fetched, (c) when
\* those fail a UI-driven download event whose file is saved; a later strategy
\* is tried only when every earlier one failed.
C25_StrategiesInOrder == C25_FetchesInOrder /\ C25_EventAsLastResort

----------------------------------------------------------------------------
(* Properties of the order of foreach iterations *)

\* a foreach was called on its own
ForeachCall == Ran("executeStep") /\ sx.steps[1].action = "foreach"

\* the event at p is the emission of an item of the foreach that was called
OwnEmit(p) == out.obs[p].e = "emit" /\ out.obs[p].scope = sx.scope

\* the event at p happened within an iteration of the foreach that was called:
\* a sub-step called, a sub-step error caught, an item of a nested foreach emitted
Within(p) ==
    /\ out.obs[p].e \in {"sub", "subThrew", "emit"}
    /\ Len(out.obs[p].scope) > Len(sx.scope)

\* the iteration the event at p belongs to
Iteration(p) ==
    IF OwnEmit(p) THEN out.obs[p].n ELSE out.obs[p].scope[Len(sx.scope) + 1]

\* C26: foreach iterations are strictly sequential and streamed in order:
\* nothing of iteration k + 1 happens before every sub-step of iteration k has
\* finished and the callback for item k has returned, and the callbacks for
\* the items of one foreach are made in ascending index order.
C26_IterationsInOrder ==
    ForeachCall =>
        /\ \A p, q \in 1..Len(out.obs) :
              (p < q /\ (OwnEmit(p) \/ Within(p)) /\ (OwnEmit(q) \/ Within(q))) =>
                  /\ Iteration(p) <= Iteration(q)
                  /\ OwnEmit(p) => Iteration(p) < Iteration(q)
        /\ \A p \in 1..Len(out.obs) :
              OwnEmit(p) =>
                  \E q \in 1..(p - 1) :
                      out.obs[q].e = "sub" /\ Within(q) /\ Iteration(q) = Iteration(p)

\* two matches with the callback registered: the first item was emitted after
\* its two sub-steps and before the first sub-step of the second match
C26_Witness ==
    /\ ForeachCall
    /\ sx.steps = <<Articles>>
    /\ sx.cb
    /\ ~out.thrown
    /\ \E p \in 2..(Len(out.obs) - 1) :
          /\ OwnEmit(p) /\ Iteration(p) = 0
          /\ out.obs[p - 1].e = "sub" /\ out.obs[p - 1].n = 2 /\ Iteration(p - 1) = 0
          /\ out.obs[p + 1].e = "sub" /\ out.obs[p + 1].n = 1 /\ Iteration(p + 1) = 1
    /\ OwnEmit(Len(out.obs)) /\ Iteration(Len(out.obs)) = 1

----------------------------------------------------------------------------
(* Properties of the shape of the records *)

\* the value holds an item_* key, at some depth
RECURSIVE HasItemKey(_)
HasItemKey(v) ==
    \E n \in 1..Len(v.c) : StartsWithItem(v.c[n].k) \/ HasItemKey(v.c[n].v)

\* no record returned so far holds an item_* key
ResultsFlat == \A n \in 1..Len(results) : ~HasItemKey(results[n])

\* no record passed to the callback holds an item_* key
DeliveredFlat == \A n \in 1..Len(delivered) : ~HasItemKey(delivered[n].rec)

\* the per-page list of the run holds a foreach within a foreach
NestedRun == \E n \in 1..Len(stepsForPage(tmpl)) : IsNested(stepsForPage(tmpl)[n])

\* with loops nested two deep what the callback receives is flat, and without
\* nested loops what executeTab returns is flat too
C27_FlatWhereFlattened == DeliveredFlat /\ (~NestedRun => ResultsFlat)

\* C27: output records are flat: no record returned by executeTab and no
\* record passed to the callback holds an item_* key at any depth; for nested
\* foreach the ancestor context is merged into each nested item.
C27_RecordsFlat == ResultsFlat /\ DeliveredFlat

----------------------------------------------------------------------------
(* Properties of the initSteps and of the root collector *)

\* the page numbers a run of the template may stand on when its list begins
PagesOf(template) == IF template.hasPagination THEN 0..CountCap ELSE {0}

\* the per-page lists of the templates, each with the pages it is run on
PageLists == { <<stepsForPage(t), PagesOf(t), cb>> : t \in TabTemplates, cb \in BOOLEAN }

\* what a list leaves in a collector that was empty when the list began
PassesOf(steps, pages, cb) ==
    UNION { { <<steps, pg, cb, o.col>>
              : o \in executeStepList(steps, <<>>, pg, MaxTabMatch, cb) }
            : pg \in pages }

\* ... for every per-page list, by page and by whether the callback is registered
FreshPasses == UNION { PassesOf(k[1], k[2], k[3]) : k \in PageLists }

\* the initSteps have run once if the template has any, and not before executeTab began
InitStepsRanOnce ==
    /\ pc = "start" => inits = 0 /\ collects = 0 /\ advances = 0
    /\ pc # "start" => inits = (IF Len(tmpl.initSteps) > 0 THEN 1 ELSE 0)

\* the initSteps run at the start only, before any per-page step and any advance
InitStepsRunFirst ==
    inits' # inits => pc = "start" /\ collects = 0 /\ advances = 0 /\ pageIndex = 0

\* a page iteration leaves in its root collector what the per-page list
\* leaves in an empty one on that page
FreshRootCollector ==
    collects' # collects \/ collected' # collected =>
        <<stepsForPage(tmpl), pageNo, onResultCallback, collected'>> \in FreshPasses

\* C28: executeTab runs the initSteps exactly once per tab, before the first
\* per-page step and before any advance, and never again on a later
\* iteration; every page iteration starts from a fresh, empty root collector.
C28_InitOnceFreshCollector ==
    /\ []InitStepsRanOnce
    /\ [][InitStepsRunFirst /\ FreshRootCollector]_vars

\* a run with initSteps over the largest number of pages: the initSteps ran
\* once, and each page gave its own record
C28_Witness ==
    /\ pc = "done"
    /\ tmpl.initSteps = <<GoTo>>
    /\ inits = 1
    /\ collects = MaxPagesBound
    /\ Len(results) = MaxPagesBound
    /\ \A m, n \in 1..Len(results) : m # n => results[m] # results[n]
    /\ collected = results[Len(results)].c

----------------------------------------------------------------------------
(* Properties of the item collectors of a foreach *)

\* the keys a step stores under in the collector it is given: a data step its
\* key, a foreach its items, an open step what its sub-steps left in the child
\* collector that is merged
RECURSIVE Writes(_)
Writes(step) ==
    IF step.action = "data" THEN {C9_Key(step)}
    ELSE IF step.action = "foreach" THEN {ItemKey(j) : j \in 0..9}
    ELSE IF step.action = "open"
         THEN UNION {Writes(step.subSteps[m]) : m \in 1..Len(step.subSteps)}
    ELSE {}

\* the keys the sub-steps of iteration idx store under
WrittenIn(step, idx) ==
    UNION { Writes(cloneStepWithIndex(step.subSteps[m], idx,
                                      IF step.index_key # "" THEN step.index_key ELSE "i"))
            : m \in 1..Len(step.subSteps) }

\* the item collector iteration idx left in the parent
ItemAt(idx) == Get(out.col, ItemKey(idx)).c

\* a key a sub-step of one iteration wrote is in the item of another iteration
\* only if a sub-step of that iteration wrote it, and whatever an item holds
\* is the parent's context or was written by a sub-step of its own iteration
OwnItemCollectors ==
    LET step == sx.steps[1]
        n == Matched(out.obs)
        context == {sx.col[i].k : i \in {j \in 1..Len(sx.col) : IsContextEntry(sx.col[j])}}
    IN  /\ \A k, l \in 0..(n - 1) :
              k # l => \A key \in WrittenIn(step, k) :
                          Has(ItemAt(l), key) => key \in WrittenIn(step, l)
        /\ \A l \in 0..(n - 1) :
              \A i \in 1..Len(ItemAt(l)) :
                  ItemAt(l)[i].k \in context \cup WrittenIn(step, l)

\* the parent holds the context entries it held when the foreach was called
ParentContextKept ==
    SelectSeq(out.col, IsContextEntry) = SelectSeq(sx.col, IsContextEntry)

\* C29: item collectors are never shared between sibling iterations: a key
\* written by a sub-step in iteration k of a foreach does not appear in the
\* item collector of any other iteration k' of the same foreach unless a
\* sub-step of iteration k' wrote it, and writes in an item collector never
\* change the parent's context keys.
C29_ItemCollectorsApart ==
    ForeachCall =>
        /\ ~out.thrown => OwnItemCollectors
        /\ ParentContextKept

\* two matches, the sub-steps storing under title_<index> and under title,
\* which the parent holds: each item has its own numbered key and not its
\* sibling's, both hold the title they read, the parent the title it had
C29_Witness ==
    /\ ForeachCall /\ sx.steps = <<NumberedTitles>> /\ ~out.thrown
    /\ Has(sx.col, <<"title">>) /\ Get(sx.col, <<"title">>) = StrVal(<<"Old">>)
    /\ Matched(out.obs) = 2
    /\ Has(ItemAt(0), <<"title_", "0">>) /\ ~Has(ItemAt(0), <<"title_", "1">>)
    /\ Has(ItemAt(1), <<"title_", "1">>) /\ ~Has(ItemAt(1), <<"title_", "0">>)
    /\ Get(ItemAt(0), <<"title">>) = StrVal(<<"h1", "@", "0", "0">>)
    /\ Get(ItemAt(1), <<"title">>) = StrVal(<<"h1", "@", "0", "1">>)
    /\ Get(out.col, <<"title">>) = StrVal(<<"Old">>)

----------------------------------------------------------------------------
(* Properties of paginationFirst *)

PaginationFirstSet == tmpl.hasPagination /\ tmpl.pagination.paginationFirst

\* the loop of executeTab that collects page by page
DefaultLoop == ~(tmpl.hasPagination /\ tmpl.pagination.paginateAllFirst)

\* a step that runs the per-page steps: no advance was made before the first
\* page, and every later page has an advance of its own, which succeeded
AdvanceBeforeCollect ==
    collects' # collects =>
        /\ advances = collects
        /\ collects > 0 => lastAdv = "ok"

\* a step that makes the advance at the top of an iteration: when the advance
\* does not succeed the run is over, and a run that is over collects nothing
FailedAdvanceSkipsPage ==
    /\ pc = "advanceFirst" /\ pc' # pc /\ lastAdv' # "ok" =>
          pc' \in Terminal /\ collects' = collects /\ results' = results
    /\ pc \in Terminal => collects' = collects /\ results' = results

\* C30 as stated: with paginationFirst set, the first page is collected with
\* no preceding advance, every later page's advance is performed before its
\* per-page steps, and a page whose advance fails is not collected.
C30_Original ==
    [][PaginationFirstSet => AdvanceBeforeCollect /\ FailedAdvanceSkipsPage]_vars

\* C30, amended: that holds when paginateAllFirst is not set; with
\* paginateAllFirst the advances all come before the only execution of the
\* per-page steps, whatever paginationFirst says.
C30_AdvanceThenCollect ==
    [][PaginationFirstSet =>
          IF DefaultLoop THEN AdvanceBeforeCollect /\ FailedAdvanceSkipsPage
          ELSE collects' # collects => collects = 0 /\ pc = "collectAll"]_vars

\* an uncapped paginationFirst run: the first page, an advance, the second
\* page, and an advance that failed, after which nothing was collected
C30_Witness ==
    /\ pc = "done"
    /\ PaginationFirstSet /\ DefaultLoop
    /\ collects = 2 /\ advances = 2
    /\ lastAdv = "fail"
    /\ Len(results) >= 1

----------------------------------------------------------------------------
(* Properties of the result sink of executeStep *)

\* the non-empty item collectors a completed foreach left in the parent
FilledItems == {k \in 0..(Matched(out.obs) - 1) : Len(ItemAt(k)) > 0}

\* item k was delivered, flattened, with its index
ItemStreamed(k) ==
    \E p \in 1..Len(out.obs) :
        /\ OwnEmit(p)
        /\ out.obs[p].n = k
        /\ out.obs[p].rec = flattenNestedForeachResults(ItemAt(k))

\* C31: when executeStep is called with a result sink (the onResult argument)
\* and a foreach step, each non-empty item collector is flattened and
\* delivered to that sink with the item's local index as soon as the item
\* completes; the sink passed as argument, not ambient state, decides whether
\* items are emitted.
C31_ArgumentSinkDecides ==
    ForeachCall /\ ~out.thrown =>
        /\ sx.onResult => \A k \in FilledItems : ItemStreamed(k)
        /\ ~sx.onResult => \A p \in 1..Len(out.obs) : ~OwnEmit(p)

----------------------------------------------------------------------------
(* Properties of the two orders of the default loop *)

\* C32: for every template and driver behaviour, a run with paginationFirst
\* set and a run without it (all else equal, no paginateAllFirst) perform the
\* same sequence of collect and advance events and return the same records.
C32_SameRunsEitherOrder ==
    phase = "both" => out.plain = out.first

\* a capped template: in either order there is the run that collects a page,
\* advances, and collects the second page, returning a record of each
C32_Witness ==
    /\ phase = "both"
    /\ sx.template.pagination.maxPages = 2
    /\ \E r \in out.plain :
          /\ r \in out.first
          /\ r.end = "done"
          /\ Len(r.trace) = 3
          /\ r.trace[1].e = "collect" /\ r.trace[1].pg = 0
          /\ r.trace[2] = [e |-> "advance", how |-> "ok"]
          /\ r.trace[3].e = "collect" /\ r.trace[3].pg = 1
          /\ Len(r.results) = 2

----------------------------------------------------------------------------
(* Properties of two interleaved runs of executeTab *)

\* what the callback of a run received from a foreach came from that run
OwnRecordsOnly ==
    \A i \in TabRuns : \A n \in 1..Len(out.received[i]) :
        out.received[i][n].via = "foreach" => out.received[i][n].from = i

\* a run with a callback that is over has delivered each of its records to it
NothingDropped ==
    \A i \in TabRuns :
        sx.cb[i] /\ out.runs[i].pc = "done" =>
            \A m \in 1..Len(out.runs[i].results) :
                \E n \in 1..Len(out.received[i]) :
                    /\ out.received[i][n].from = i
                    /\ out.received[i][n].rec = out.runs[i].results[m]

\* C33: when two executeTab runs with different callbacks are interleaved at
\* their await points, every record emitted by a foreach of one run is
\* delivered only to that run's own callback, and a run started without a
\* callback never causes records of another run to be dropped or redirected.
C33_CallbacksApart ==
    phase = "tabs" => OwnRecordsOnly /\ NothingDropped

----------------------------------------------------------------------------
(* Properties of sibling foreach steps *)

\* the matches the foreach steps of a list run counted, in order
Counted == SelectSeq(out.obs, LAMBDA ev : ev.e = "count")

\* a list of two foreach steps was run and both loops went through all their
\* matches: neither step threw
SiblingLoops ==
    /\ Ran("executeStepList") /\ ~out.thrown
    /\ Len(sx.steps) = 2
    /\ sx.steps[1].action = "foreach" /\ sx.steps[2].action = "foreach"
    /\ Len(Counted) = 2
    /\ \A p \in 1..Len(out.obs) : out.obs[p].e # "threw"

\* how many elements the n-th foreach of the list matched
MatchedBy_(n) == Counted[n].n

\* item k is what iteration k of `step` leaves: the context and the keys of
\* the sub-steps of that iteration
ItemOfStep(step, k) ==
    /\ Has(out.col, ItemKey(k))
    /\ {ItemAt(k)[i].k : i \in 1..Len(ItemAt(k))}
           = {sx.col[i].k : i \in {j \in 1..Len(sx.col) : IsContextEntry(sx.col[j])}}
                \cup WrittenIn(step, k)

\* C34: when two sibling foreach steps in the same step list run against the
\* same collector with N1 and N2 matches, they write the same keys item_0,
\* item_1, ...: afterwards item_k holds the second foreach's item for k < N2
\* and the first foreach's item only for N2 <= k < N1, so earlier results are
\* overwritten.
C34_SiblingLoopsOverwrite ==
    SiblingLoops =>
        /\ \A k \in 0..(MatchedBy_(2) - 1) : ItemOfStep(sx.steps[2], k)
        /\ \A k \in MatchedBy_(2)..(MatchedBy_(1) - 1) : ItemOfStep(sx.steps[1], k)
        /\ \A k \in 0..9 :
              k >= MatchedBy_(1) /\ k >= MatchedBy_(2) /\ Has(out.col, ItemKey(k)) =>
                  Has(sx.col, ItemKey(k)) /\ Get(out.col, ItemKey(k)) = Get(sx.col, ItemKey(k))

\* two matches of the first loop, which stores a numbered title, and one of
\* the second, which stores a title: item_0 has lost its numbered title,
\* item_1 has not
C34_Witness ==
    /\ SiblingLoops /\ sx.steps = <<Numbered, ArticleTitles>>
    /\ MatchedBy_(1) = 2 /\ MatchedBy_(2) = 1
    /\ Has(ItemAt(0), <<"title">>) /\ ~Has(ItemAt(0), <<"title_", "0">>)
    /\ Has(ItemAt(1), <<"title_", "1">>) /\ ~Has(ItemAt(1), <<"title">>)

----------------------------------------------------------------------------
(* Properties of the root keys written after a foreach *)

\* the position of the first foreach of a list (0: none)
FirstLoop(steps) ==
    IF \E n \in 1..Len(steps) : steps[n].action = "foreach"
    THEN CHOOSE n \in 1..Len(steps) :
            /\ steps[n].action = "foreach"
            /\ \A m \in 1..(n - 1) : steps[m].action # "foreach"
    ELSE 0

\* the non-item keys only the steps after the first foreach of a list write
\* to the root collector
LaterKeys(steps) ==
    LET n == FirstLoop(steps)
    IN  IF n = 0 THEN {}
        ELSE { k \in UNION {Writes(steps[m]) : m \in (n + 1)..Len(steps)} :
                 /\ ~StartsWithItem(k)
                 /\ k \notin UNION {Writes(steps[m]) : m \in 1..(n - 1)}
                 /\ k \notin WrittenIn(steps[n], 0) }

\* the records a step appended to the results
NewRecords == {results'[n] : n \in (Len(results) + 1)..Len(results')}

----------------------------------------------------------------------------
(* Properties of a foreach that a sub-step ends *)

\* a list with one foreach was run
OneLoopList ==
    /\ Ran("executeStepList")
    /\ Cardinality({n \in 1..Len(sx.steps) : sx.steps[n].action = "foreach"}) = 1

\* the event at p is the error of a sub-step that ended the foreach: the step
\* threw right after it
AbortedAt(p) ==
    /\ p < Len(out.obs)
    /\ out.obs[p].e = "subThrew" /\ Len(out.obs[p].scope) = 1
    /\ out.obs[p + 1].e = "threw"

\* the records executeTab makes of the collector the list left
PageRecords == AssemblePage(out.col, <<>>, 0, FALSE, sx.cb, TRUE).results

\* items 0 .. k - 1 of the foreach are in the collector, each with the keys of
\* its sub-steps, and no later item was stored
ItemsBefore(step, k) ==
    /\ \A j \in 0..(k - 1) :
          /\ Has(out.col, ItemKey(j))
          /\ \A key \in WrittenIn(step, j) : Has(ItemAt(j), key)
    /\ \A j \in k..9 :
          Has(out.col, ItemKey(j)) =>
              Has(sx.col, ItemKey(j)) /\ Get(out.col, ItemKey(j)) = Get(sx.col, ItemKey(j))

\* items 0 .. k - 1 were streamed before the event at p, and no other item was
StreamedBefore(p, k) ==
    /\ \A j \in 0..(k - 1) :
          \E q \in 1..(p - 1) :
              /\ out.obs[q].e = "emit" /\ out.obs[q].scope = <<>> /\ out.obs[q].n = j
              /\ out.obs[q].rec = flattenNestedForeachResults(ItemAt(j))
    /\ \A q \in 1..Len(out.obs) :
          out.obs[q].e = "emit" /\ out.obs[q].scope = <<>> => out.obs[q].n < k

\* C36: if a terminateonerror sub-step throws in iteration k of a foreach
\* over N elements, the parent collector ends with exactly item_0 ..
\* item_(k-1) and no item_k; items 0..k-1 have already been streamed, and
\* when the foreach step itself is not terminateonerror executeTab still
\* returns those k items as records.
C36_AbortedLoopKeepsItems ==
    OneLoopList =>
        \A p \in 1..Len(out.obs) :
            AbortedAt(p) =>
                LET k == out.obs[p].scope[1]
                    step == sx.steps[StepAt(out.obs, p)]
                IN  /\ step.action = "foreach"
                    /\ k < Matched(out.obs)
                    /\ ItemsBefore(step, k)
                    /\ sx.cb => StreamedBefore(p, k)
                    /\ (\A n \in 1..Len(sx.steps) : ~sx.steps[n].terminateonerror) =>
                          /\ ~out.thrown
                          /\ k > 0 /\ sx.col = <<>> =>
                                PageRecords = [j \in 1..k |-> Get(out.col, ItemKey(j - 1))]

\* the second of two articles fails to load: the collector holds the first
\* item alone, it was streamed, and it is the one record of the page
C36_Witness ==
    /\ OneLoopList /\ sx.steps = <<GetPageTitle, Fragile, GetLink>>
    /\ sx.col = <<>> /\ sx.cb /\ ~out.thrown
    /\ Matched(out.obs) = 2
    /\ \E p \in 1..Len(out.obs) : AbortedAt(p) /\ out.obs[p].scope = <<1>>
    /\ Has(out.col, <<"item_", "0">>) /\ ~Has(out.col, <<"item_", "1">>)
    /\ \E q \in 1..Len(out.obs) : out.obs[q].e = "emit" /\ out.obs[q].n = 0
    /\ PageRecords = <<Get(out.col, <<"item_", "0">>)>>

----------------------------------------------------------------------------
(* Properties of a callback that throws *)

\* no step of the list can end it: none has terminateonerror
NeverThrows(steps) == \A n \in 1..Len(steps) : ~steps[n].terminateonerror

\* a pass of per-page steps that cannot throw does not end the run with an
\* exception, whatever the callback does with the records of the page
PageCallbackContained ==
    collects' # collects /\ NeverThrows(stepsForPage(tmpl)) => pc' # "thrown"

\* the items a foreach streamed to the throwing callback are all there: the
\* loop went on after each
ItemCallbackContained ==
    collects' # collects /\ NeverThrows(stepsForPage(tmpl)) =>
        \A n \in 1..Len(collected') :
            IsItemEntry(collected'[n]) /\ NonEmpty(collected'[n].v) =>
                \E m \in (Len(delivered) + 1)..Len(delivered') :
                    /\ origin'[m].via = "foreach"
                    /\ delivered'[m].idx = ItemIndex(collected'[n].k)

\* C37: an exception thrown by the result callback never aborts the run: it
\* is contained both when the callback is invoked by a foreach for an item
\* and when it is invoked by executeTab for a per-page record, and the
\* remaining items, pages and tabs are still processed.
C37_CallbackErrorsContained ==
    [][CallbackThrows => ItemCallbackContained /\ PageCallbackContained]_vars

----------------------------------------------------------------------------
(* Properties of runScraper and runScraperWithCallback *)

RECURSIVE Concatenated(_)
Concatenated(lists) ==
    IF lists = <<>> THEN <<>> ELSE Head(lists) \o Concatenated(Tail(lists))

ScraperDone == phase \in {"returned", "rejected"}

\* every page that was opened is closed and so is the browser
AllReleased ==
    /\ out.open = {}
    /\ out.closed = 1..out.i
    /\ out.browser = "closed"

\* at most one page is open, and it is the page of the template being run
OneTabAtATime == out.open \subseteq {out.i}

\* what runScraper returns is the results of the tabs in template order
InTemplateOrder ==
    /\ out.allResults = Concatenated(out.perTab)
    /\ \A n \in 1..Len(out.allResults) :
          /\ out.allResults[n].tab = sx.templates[out.allResults[n].pos]
          /\ n > 1 => out.allResults[n - 1].pos <= out.allResults[n].pos

\* C38: runScraper and runScraperWithCallback release their resources on
\* every path: each tab's page is closed and the browser is closed whether
\* executeTab returns or throws; tabs run one after another and runScraper
\* returns the tab results concatenated in template order.
C38_ReleasedOnEveryPath ==
    /\ OneTabAtATime
    /\ ScraperDone => AllReleased
    /\ phase = "returned" /\ sx.call = "runScraper" => InTemplateOrder

----------------------------------------------------------------------------
(* Properties of maxPages 0 *)

ScrollsOn(template) == template.pagination.strategy = "scroll"

\* the run was still going when it was followed no further, or an exception
\* left it: no guard of the loop ended it
NeverStopped(r) == r.end \in {"cut", "thrown"}

\* a run that was not left by an exception went through every iteration that
\* is followed: each one collected a page (default loop) or advanced
\* (paginateAllFirst, which never gets to collect)
RanOn(template, r) ==
    r.end = "cut" =>
        IF template.pagination.paginateAllFirst
        THEN /\ Len(r.trace) = MaxLoopPages
             /\ \A n \in 1..Len(r.trace) : r.trace[n] = [e |-> "advance", how |-> "ok"]
        ELSE Len(SelectSeq(r.trace, LAMBDA ev : ev.e = "collect")) = MaxLoopPages

\* C39: a PaginationConfig with maxPages = 0 behaves exactly like one with
\* maxPages absent: no cap is applied to page collections (default loop) or
\* to advances (paginateAllFirst), so with strategy=scroll the loop never
\* stops (it is only ever left by an exception).
C39_ZeroIsNoCap ==
    phase \in {"both", "all"} =>
        /\ out.zero = out.absent
        /\ \A r \in out.zero :
              /\ RanOn(sx.template, r)
              /\ ScrollsOn(sx.template) => NeverStopped(r)

\* a scroll template with maxPages 0, default loop, over the articles: the
\* contrast run with cap 1 ends after its first page, the run without a cap
\* has collected and advanced MaxLoopPages times and is still going
C39_Witness ==
    /\ phase = "all"
    /\ ScrollsOn(sx.template)
    /\ ~sx.template.pagination.paginateAllFirst
    /\ stepsForPage(sx.template) = <<ArticleTitles>>
    /\ sx.cap = 1
    /\ \E c \in out.capped : c.end = "done" /\ Len(c.trace) = 1 /\ Len(c.results) = 1
    /\ \E r \in out.zero :
          /\ r \in out.absent
          /\ r.end = "cut"
          /\ Len(r.trace) = 2 * MaxLoopPages
          /\ Len(r.results) = MaxResults

----------------------------------------------------------------------------
(* Properties of nested loops with one index token *)

\* const indexKey = step.index_key || 'i'
IndexKeyOf(step) == IF step.index_key # "" THEN step.index_key ELSE "i"

\* where `text` had {{t}} or {{t_plus1}}, `got` has n or n + 1
TextCarries(text, got, n, t) ==
    /\ Len(got) = Len(text)
    /\ \A p \in 1..Len(text) :
          /\ text[p] \in Braced(t) => got[p] = ToString(n)
          /\ text[p] \in Braced(t \o "_plus1") => got[p] = ToString(n + 1)

\* ... in object, value and key of the step and of its subSteps at any depth
RECURSIVE StepCarries(_, _, _, _)
StepCarries(step, got, n, t) ==
    /\ TextCarries(step.object, got.object, n, t)
    /\ TextCarries(step.value, got.value, n, t)
    /\ TextCarries(step.key, got.key, n, t)
    /\ Len(got.subSteps) = Len(step.subSteps)
    /\ \A m \in 1..Len(step.subSteps) :
          StepCarries(step.subSteps[m], got.subSteps[m], n, t)

\* the step given first was an inner foreach, cloned by the outer loop with
\* the token the inner loop uses too; its clone was then cloned as the inner
\* loop clones for one of its iterations
InnerOfSameToken ==
    /\ phase = "recloned"
    /\ sx.step.action = "foreach"
    /\ sx.char = IndexKeyOf(sx.step)
    /\ out.char = IndexKeyOf(out.of)

\* C40: when an outer and an inner foreach both use the same index token,
\* every {{i}} / {{i_plus1}} inside the inner foreach's sub-steps is already
\* replaced by the outer index at the outer clone stage, so for every inner
\* iteration the executed sub-step carries the outer index and never the
\* inner one.
C40_OuterIndexWins ==
    InnerOfSameToken =>
        \A m \in 1..Len(sx.step.subSteps) :
            /\ StepCarries(sx.step.subSteps[m], out.of.subSteps[m], sx.idx, sx.char)
            /\ out.step.subSteps[m] = out.of.subSteps[m]

\* the rows loop cloned by an outer loop at index 0 and then for its own
\* iteration 2: the row is tr[1] under row_0_..., not tr[3] under row_2_...
C40_Witness ==
    /\ InnerOfSameToken
    /\ sx.step = LabelledRows
    /\ sx.idx = 0
    /\ out.idx = 2
    /\ out.step.subSteps[1].object = <<"tr[", "1", "]">>
    /\ out.step.subSteps[1].key = <<"row_", "0", "_", "{{j_plus1}}">>

====
